---- MODULE Spec2Model ----
(***************************************************************************)
(* A model of the include-resolution and region-synchronization engine of  *)
(* vscode-virtual-include (DocumentProcessor, LanguageService), and of the *)
(* manager's event handlers that start its passes (VirtualIncludeManager,  *)
(* EditProtection, FileWatcher).                                           *)
(*                                                                         *)
(* Text is modelled symbol by symbol.  A line is a sequence of symbols, a  *)
(* symbol standing for one character or for one fixed word of the program  *)
(* ("virtualInclude", a word of a marker, a file name); a text (a          *)
(* document, a file's content, an edit's replacement) is the non-empty     *)
(* sequence of the lines that split("\n") gives.  Line and column numbers  *)
(* are 0-based as in the code; At(s, i) reads the element with 0-based     *)
(* index i.  A column counts symbols: the lines of the model are spelled   *)
(* so that a line longer in characters is longer in symbols too.           *)
(***************************************************************************)
EXTENDS Integers, Sequences, FiniteSets, TLC

VARIABLES
    platform,           \* process.platform
    document,           \* the lines of the document open in the editor
    fs,                 \* each source file's content on disk, or Missing
    sourceToDocuments,  \* manager: resolved source path -> keys of including documents
    documentIncludes,   \* manager: document key -> include map (line -> content)
    pass,               \* what the last processDocument did
    quiet,              \* passes completed since the document or a file last changed (up to 2)
    sourceChanges,      \* writes made so far to the source files
    userEdits,          \* edits made so far by the user
    isPerformingUpdate, \* manager: the flag that switches edit protection off
    isClosed,           \* document.isClosed
    slots,              \* the passes and source-change handlers in flight
    timers,             \* the setTimeout callbacks that are armed
    ui,                 \* the messages and log lines of the last step
    change,             \* what the last onDidChangeTextDocument handler did
    started,            \* passes started so far
    second,             \* the lines of a second document open in the editor
    report,             \* how the last call of manager.processDocument ended
    resolution,         \* the last call of LanguageService.getContextAwareSettings
    disposables,        \* manager: the event registrations not yet disposed
    documentWatchers,   \* manager: document key -> the watchers stored for it
    watchers            \* the file watchers not yet disposed: watcher -> source path

\* the run-time state of the manager's handlers
handlerVars == <<isPerformingUpdate, isClosed, slots, timers, ui, change, started,
                 second, report, resolution, disposables>>

\* the file watchers of the manager
watcherVars == <<documentWatchers, watchers>>

vars == <<platform, document, fs, sourceToDocuments, documentIncludes, pass, quiet,
          sourceChanges, userEdits, isPerformingUpdate, isClosed, slots, timers, ui,
          change, started, second, report, resolution, disposables, documentWatchers,
          watchers>>

(* ------------------------------ symbols ------------------------------- *)

SP == " "
HASH == "#"
SLASHES == "//"
VI == "virtualInclude"
QUOTE == "'"
WithWord == "with"
SEP == "/"
START_TEXT ==
    <<"virtualIncludeStart", SP, "-", SP, "DO", SP, "NOT", SP, "EDIT", SP, "CONTENT", SP, "BELOW">>
END_TEXT ==
    <<"virtualIncludeEnd", SP, "-", SP, "DO", SP, "NOT", SP, "EDIT", SP, "CONTENT", SP, "ABOVE">>

At(s, i) == s[i + 1]

Min(a, b) == IF a < b THEN a ELSE b

IsSpace(c) == c = SP

(* s[from .. to-1], 0-based, as String.prototype.slice / Array.prototype.slice *)
Slice(s, from, to) == IF to <= from THEN << >> ELSE SubSeq(s, from + 1, to)

\* the number of leading white-space symbols of the line: the match of /^(\s*)/
RECURSIVE LeadingSpaces(_)
LeadingSpaces(line) ==
    IF line # << >> /\ IsSpace(Head(line)) THEN 1 + LeadingSpaces(Tail(line)) ELSE 0

RECURSIVE TrailingSpaces(_)
TrailingSpaces(line) ==
    IF line # << >> /\ IsSpace(line[Len(line)])
    THEN 1 + TrailingSpaces(SubSeq(line, 1, Len(line) - 1))
    ELSE 0

Indentation(line) == Slice(line, 0, LeadingSpaces(line))

(* String.prototype.trim *)
Trim(line) ==
    IF LeadingSpaces(line) = Len(line) THEN << >>
    ELSE Slice(line, LeadingSpaces(line), Len(line) - TrailingSpaces(line))

(* the least index >= i that holds no white space (Len(line) when none) *)
RECURSIVE SkipSpaces(_, _)
SkipSpaces(line, i) ==
    IF i < Len(line) /\ IsSpace(At(line, i)) THEN SkipSpaces(line, i + 1) ELSE i

(* the least index >= i that holds a quote, or -1 *)
RECURSIVE NextQuote(_, _)
NextQuote(line, i) ==
    IF i >= Len(line) THEN -1
    ELSE IF At(line, i) = QUOTE THEN i ELSE NextQuote(line, i + 1)

(* the word w stands at index i of the line *)
HasAt(line, i, w) ==
    /\ i >= 0
    /\ i + Len(w) <= Len(line)
    /\ Slice(line, i, i + Len(w)) = w

(* --------------------------- LanguageService -------------------------- *)

\* COMMENT_STYLES, with the configured default ("#") for any other language
getCommentStyle(languageId) ==
    CASE languageId = "javascript" -> [start |-> <<SLASHES>>, end |-> << >>]
      [] languageId = "python" -> [start |-> <<HASH>>, end |-> << >>]
      [] OTHER -> [start |-> <<HASH>>, end |-> << >>]

\* createDefaultSettings: the directive pattern is
\*   <comment start>\s*virtualInclude\s+["'](.+?)["']
\* and is kept here as the comment token it is built from (commentStart)
createDefaultSettings(commentStyle) ==
    [ commentStart |-> commentStyle.start,
      startMarkerTemplate |->
          commentStyle.start \o <<SP>> \o START_TEXT \o <<SP>> \o commentStyle.end,
      endMarkerTemplate |->
          commentStyle.start \o <<SP>> \o END_TEXT \o <<SP>> \o commentStyle.end ]

\* getLanguageSettings under the default configuration (no languageSettings entry)
getLanguageSettings(languageId) == createDefaultSettings(getCommentStyle(languageId))

\* EXTENSION_TO_LANGUAGE applied to the text after the path's last "."; a file
\* name is one symbol, so the extension is that of the path's last symbol
getLanguageFromExtension(filePath) ==
    IF filePath = << >> THEN "none"
    ELSE CASE filePath[Len(filePath)] \in {"d.js"} -> "javascript"
           [] filePath[Len(filePath)] \in {"A.py", "a.py"} -> "python"
           [] OTHER -> "none"

\* virtualInclude\s+["'](.+?)["'] matched with the keyword at index v; q is the
\* closing quote the lazy group stops at
KeywordMatchAt(line, v) ==
    LET a == SkipSpaces(line, v + 1)
        q == NextQuote(line, a + 2)
    IN  IF /\ v >= 0 /\ v < Len(line) /\ At(line, v) = VI
           /\ a > v + 1 /\ a < Len(line) /\ At(line, a) = QUOTE
           /\ q # -1
        THEN [ok |-> TRUE, path |-> Slice(line, a + 1, q), close |-> q]
        ELSE [ok |-> FALSE, path |-> << >>, close |-> -1]

\* the directive pattern of comment token cs matched at index i
IncludeMatchAt(line, i, cs) ==
    IF HasAt(line, i, cs)
    THEN KeywordMatchAt(line, SkipSpaces(line, i + Len(cs)))
    ELSE [ok |-> FALSE, path |-> << >>, close |-> -1]

RECURSIVE IncludeMatchFrom(_, _, _)
IncludeMatchFrom(line, i, cs) ==
    IF i >= Len(line) THEN [ok |-> FALSE, path |-> << >>, close |-> -1]
    ELSE IF IncludeMatchAt(line, i, cs).ok THEN IncludeMatchAt(line, i, cs)
    ELSE IncludeMatchFrom(line, i + 1, cs)

\* line.match(settings.includeDirectivePattern): the leftmost match
MatchInclude(line, settings) == IncludeMatchFrom(line, 0, settings.commentStart)

\* the rest of COMMENT_OVERRIDE_REGEX after the path's closing quote q:
\*   \s+with\s+["']([^"']+)["']
OverrideTailAt(line, q) ==
    LET w == SkipSpaces(line, q + 1)
        b == SkipSpaces(line, w + 1)
        e == NextQuote(line, b + 1)
    IN  IF /\ At(line, q) = QUOTE
           /\ w > q + 1 /\ HasAt(line, w, <<WithWord>>)
           /\ b > w + 1 /\ b < Len(line) /\ At(line, b) = QUOTE
           /\ e > b + 1
        THEN [ok |-> TRUE, style |-> Slice(line, b + 1, e)]
        ELSE [ok |-> FALSE, style |-> << >>]

\* the lazy path group grows to the first closing quote after which the rest matches
RECURSIVE OverrideCloseFrom(_, _)
OverrideCloseFrom(line, q) ==
    IF q >= Len(line) THEN -1
    ELSE IF OverrideTailAt(line, q).ok THEN q
    ELSE OverrideCloseFrom(line, q + 1)

OverrideMatchAt(line, v) ==
    LET a == SkipSpaces(line, v + 1)
        q == OverrideCloseFrom(line, a + 2)
    IN  IF /\ v < Len(line) /\ At(line, v) = VI
           /\ a > v + 1 /\ a < Len(line) /\ At(line, a) = QUOTE
           /\ q # -1
        THEN [ok |-> TRUE, path |-> Slice(line, a + 1, q),
              style |-> OverrideTailAt(line, q).style]
        ELSE [ok |-> FALSE, path |-> << >>, style |-> << >>]

RECURSIVE OverrideMatchFrom(_, _)
OverrideMatchFrom(line, v) ==
    IF v >= Len(line) THEN [ok |-> FALSE, path |-> << >>, style |-> << >>]
    ELSE IF OverrideMatchAt(line, v).ok THEN OverrideMatchAt(line, v)
    ELSE OverrideMatchFrom(line, v + 1)

\* line.match(COMMENT_OVERRIDE_REGEX)
MatchOverride(line) == OverrideMatchFrom(line, 0)

\* getContextAwareSettings; includedFilePath is << >> when the caller gives none.
\* Its second step, getSectionOverride, keeps only the overrides whose fileType
\* is the document's language: the built-in ones are for "html" and "yaml" and
\* the configured list is empty by default, so none applies to the document here.
getContextAwareSettings(languageId, line, includedFilePath) ==
    IF MatchOverride(line).ok
    THEN createDefaultSettings([start |-> MatchOverride(line).style, end |-> << >>])
    ELSE IF includedFilePath # << >> /\ getLanguageFromExtension(includedFilePath) # "none"
    THEN getLanguageSettings(getLanguageFromExtension(includedFilePath))
    ELSE getLanguageSettings(languageId)

(* -------------------------------- paths ------------------------------- *)

\* the document: its fsPath, its languageId, its key in the manager's maps
DocPath == <<SEP, "w", SEP, "A.py">>
DocLanguage == "python"
DocKey == "A"

\* the source files that may exist beside the document
FileB == <<SEP, "w", SEP, "b.md">>
FileD == <<SEP, "w", SEP, "d.js">>
SourcePaths == {FileB, FileD}
\* a file that does not exist has no text: an existing one has at least one line
Missing == << >>

isAbsolute(p) == p # << >> /\ p[1] = SEP

\* the segments of a path, split at its separators
RECURSIVE SplitPath(_, _, _)
SplitPath(p, i, cur) ==
    IF i >= Len(p) THEN <<cur>>
    ELSE IF At(p, i) = SEP THEN <<cur>> \o SplitPath(p, i + 1, << >>)
    ELSE SplitPath(p, i + 1, Append(cur, At(p, i)))

\* "." and empty segments dropped, ".." taking the segment before it away
RECURSIVE NormalizeSegments(_, _)
NormalizeSegments(segs, acc) ==
    IF segs = << >> THEN acc
    ELSE IF Head(segs) \in {<< >>, <<".">>} THEN NormalizeSegments(Tail(segs), acc)
    ELSE IF Head(segs) \in {<<"..">>, <<".", ".">>}
    THEN NormalizeSegments(Tail(segs),
                           IF acc = << >> THEN acc ELSE SubSeq(acc, 1, Len(acc) - 1))
    ELSE NormalizeSegments(Tail(segs), Append(acc, Head(segs)))

RECURSIVE JoinSegments(_)
JoinSegments(segs) ==
    IF segs = << >> THEN << >> ELSE <<SEP>> \o Head(segs) \o JoinSegments(Tail(segs))

\* path.normalize of an absolute path (a trailing separator is kept)
normalize(p) ==
    LET segs == NormalizeSegments(SplitPath(p, 0, << >>), << >>)
    IN  IF segs = << >> THEN <<SEP>>
        ELSE JoinSegments(segs) \o (IF p[Len(p)] = SEP THEN <<SEP>> ELSE << >>)

\* path.dirname of the document's path
dirname(p) == JoinSegments(LET segs == NormalizeSegments(SplitPath(p, 0, << >>), << >>)
                           IN  SubSeq(segs, 1, Len(segs) - 1))

\* path.resolve(dir, p) for a relative p: absolute, normalized, no trailing separator
resolve(dir, p) ==
    LET segs == NormalizeSegments(SplitPath(dir \o <<SEP>> \o p, 0, << >>), << >>)
    IN  IF segs = << >> THEN <<SEP>> ELSE JoinSegments(segs)

_resolveIncludePath(documentPath, includePath) ==
    IF isAbsolute(includePath) THEN includePath
    ELSE resolve(dirname(documentPath), includePath)

toLowerCase(p) == [i \in 1..Len(p) |-> IF p[i] = "A.py" THEN "a.py" ELSE p[i]]

_isSelfInclude(plat, documentPath, includePath) ==
    LET normalizedDocPath == normalize(documentPath)
        normalizedIncludePath == normalize(_resolveIncludePath(documentPath, includePath))
    IN  IF plat = "win32"
        THEN toLowerCase(normalizedIncludePath) = toLowerCase(normalizedDocPath)
        ELSE normalizedIncludePath = normalizedDocPath

\* the file the path names on disk: the operating system resolves "." and ".."
FileOf(resolvedPath) ==
    LET segs == NormalizeSegments(SplitPath(resolvedPath, 0, << >>), << >>)
    IN  IF resolvedPath # << >> /\ resolvedPath[Len(resolvedPath)] = SEP
        THEN <<SEP>> ELSE JoinSegments(segs)

\* fs.existsSync and fs.readFileSync over the files of the model
existsSync(disk, resolvedPath) ==
    FileOf(resolvedPath) \in DOMAIN disk /\ disk[FileOf(resolvedPath)] # Missing

readFileSync(disk, resolvedPath) == disk[FileOf(resolvedPath)]

(* ------------------------ the host editor's edits --------------------- *)

\* the editor brings a position into the document: a line past the end becomes
\* the end of the last line, a column past the end of its line the line's end
validatePosition(lines, l, c) ==
    IF l >= Len(lines) THEN [line |-> Len(lines) - 1, col |-> Len(lines[Len(lines)])]
    ELSE [line |-> l, col |-> Min(c, Len(At(lines, l)))]

\* workspace.applyEdit of one replace of the range (l1,c1)-(l2,c2) by the text
\* (an insert is the replace of an empty range)
applyEdit(lines, l1, c1, l2, c2, text) ==
    LET p1 == validatePosition(lines, l1, c1)
        p2 == validatePosition(lines, l2, c2)
        prefix == Slice(At(lines, p1.line), 0, p1.col)
        suffix == Slice(At(lines, p2.line), p2.col, Len(At(lines, p2.line)))
        merged == IF Len(text) = 1 THEN <<prefix \o text[1] \o suffix>>
                  ELSE <<prefix \o text[1]>> \o SubSeq(text, 2, Len(text) - 1)
                       \o <<text[Len(text)] \o suffix>>
    IN  SubSeq(lines, 1, p1.line) \o merged \o SubSeq(lines, p2.line + 2, Len(lines))

\* document.lineAt(l).text when the document has a line l
NoLine == <<"(no line)">>
LineAt(lines, l) == IF l >= 0 /\ l < Len(lines) THEN At(lines, l) ELSE NoLine

\* Array.prototype.splice(start, deleteCount, ...items)
splice(arr, start, deleteCount, items) ==
    LET from == Min(start, Len(arr))
        to == Min(from + deleteCount, Len(arr))
    IN  SubSeq(arr, 1, from) \o items \o SubSeq(arr, to + 1, Len(arr))

(* ------------------------- DocumentProcessor -------------------------- *)

\* what the neutralizer writes after the keyword
NESTED_SUFFIX ==
    <<"-nested", SP, "(edit", SP, "source", SP, "file", SP, "to", SP, "modify)">>

\* the keyword at index v is the one the replace of
\*   /(\s*\S+\s+)virtualInclude(\s+["'].+?["'])/
\* rewrites: white space before it, a word before that, a quoted path after it
NeutralizeMatchAt(line, v) ==
    /\ v >= 2
    /\ IsSpace(At(line, v - 1))
    /\ \E t \in 0..(v - 2) :
          /\ ~IsSpace(At(line, t))
          /\ \A k \in (t + 1)..(v - 1) : IsSpace(At(line, k))
    /\ KeywordMatchAt(line, v).ok

RECURSIVE NeutralizeFrom(_, _)
NeutralizeFrom(line, v) ==
    IF v >= Len(line) THEN line
    ELSE IF NeutralizeMatchAt(line, v)
    THEN Slice(line, 0, v + 1) \o NESTED_SUFFIX \o Slice(line, v + 1, Len(line))
    ELSE NeutralizeFrom(line, v + 1)

\* one line of _neutralizeNestedIncludes
NeutralizeLine(line, languageSettings) ==
    IF \/ Trim(line) = Trim(languageSettings.startMarkerTemplate)
       \/ Trim(line) = Trim(languageSettings.endMarkerTemplate)
    THEN line
    ELSE IF MatchInclude(line, languageSettings).ok THEN NeutralizeFrom(line, 0)
    ELSE line

_neutralizeNestedIncludes(content, languageSettings) ==
    [i \in 1..Len(content) |-> NeutralizeLine(content[i], languageSettings)]

\* content.split("\n").map(l => l.length > 0 ? indentation + l : l)
IndentContent(content, indentation) ==
    [i \in 1..Len(content) |->
        IF Len(content[i]) > 0 THEN indentation \o content[i] ELSE content[i]]

\* the text of an array of lines as join("\n") gives it: no line joins to the
\* same text as one empty line
JoinLines(ls) == IF ls = << >> THEN << << >> >> ELSE ls

\* the least index j >= from whose trimmed line is one of the two markers, or -1
RECURSIVE FindMarker(_, _, _, _)
FindMarker(lines, from, m1, m2) ==
    IF from >= Len(lines) THEN -1
    ELSE IF Trim(At(lines, from)) = Trim(m1) \/ Trim(At(lines, from)) = Trim(m2) THEN from
    ELSE FindMarker(lines, from + 1, m1, m2)

\* processDocument's end marker search (lines 152-165): the first line after
\* the start marker that is an end marker
ScanEndLine(lines, nextLineIndex, languageSettings, contextAwareSettings) ==
    FindMarker(lines, nextLineIndex + 1, languageSettings.endMarkerTemplate,
               contextAwareSettings.endMarkerTemplate)

\* processDocument's inspection of an accepted directive at line i (lines
\* 133-210): whether it marks the document as needing an edit
NeedsEdit(lines, i, content, resolvedPath) ==
    LET line == At(lines, i)
        languageSettings == getLanguageSettings(DocLanguage)
        contextAwareSettings == getContextAwareSettings(DocLanguage, line, resolvedPath)
        nextLineIndex == i + 1
        endLine == ScanEndLine(lines, nextLineIndex, languageSettings, contextAwareSettings)
    IN  IF /\ nextLineIndex < Len(lines)
           /\ \/ Trim(At(lines, nextLineIndex)) = Trim(languageSettings.startMarkerTemplate)
              \/ Trim(At(lines, nextLineIndex)) = Trim(contextAwareSettings.startMarkerTemplate)
        THEN IF endLine # -1
             THEN JoinLines(Slice(lines, nextLineIndex + 1, endLine))
                      # IndentContent(content, Indentation(line))
             ELSE TRUE
        ELSE TRUE

\* the first pass of processDocument over line i of the python document at
\* documentPath (lines 81-227)
\*   kind "none": no directive;  "self": rejected with a warning;
\*   "missing": error message;   "include": entered into the include map
ScanLineOf(documentPath, lines, i, disk, plat) ==
    LET line == At(lines, i)
        match == MatchInclude(line, getContextAwareSettings(DocLanguage, line, << >>))
        overrideMatch == MatchOverride(line)
        filePath == IF overrideMatch.ok THEN overrideMatch.path ELSE match.path
        resolvedPath == _resolveIncludePath(documentPath, filePath)
    IN  IF ~match.ok
        THEN [kind |-> "none", line |-> i, resolvedPath |-> << >>,
              content |-> << >>, needsEdit |-> FALSE]
        ELSE IF _isSelfInclude(plat, documentPath, filePath)
        THEN [kind |-> "self", line |-> i, resolvedPath |-> << >>,
              content |-> << >>, needsEdit |-> FALSE]
        ELSE IF ~existsSync(disk, resolvedPath)
        THEN [kind |-> "missing", line |-> i, resolvedPath |-> resolvedPath,
              content |-> << >>, needsEdit |-> FALSE]
        ELSE [kind |-> "include", line |-> i, resolvedPath |-> resolvedPath,
              content |-> readFileSync(disk, resolvedPath),
              needsEdit |-> NeedsEdit(lines, i, readFileSync(disk, resolvedPath),
                                      resolvedPath)]

ScanLine(lines, i, disk, plat) == ScanLineOf(DocPath, lines, i, disk, plat)

\* the scan of every line, in line order
Scan(lines, disk, plat) == [k \in 1..Len(lines) |-> ScanLine(lines, k - 1, disk, plat)]

\* the scan of the document at documentPath
ScanOf(documentPath, lines, disk, plat) ==
    [k \in 1..Len(lines) |-> ScanLineOf(documentPath, lines, k - 1, disk, plat)]

\* the fixed window of the repair of a region with no end marker (line 487)
LookaheadWindow == 20

\* includeLine.match(/virtualInclude\s+["'](.+?)["']/): the leftmost keyword match
RECURSIVE KeywordMatchFrom(_, _)
KeywordMatchFrom(line, v) ==
    IF v >= Len(line) THEN [ok |-> FALSE, path |-> << >>, close |-> -1]
    ELSE IF KeywordMatchAt(line, v).ok THEN KeywordMatchAt(line, v)
    ELSE KeywordMatchFrom(line, v + 1)

\* updateDocument's end marker search (lines 418-430)
UpdateEndLine(currentLines, nextLineIndex, contextAwareSettings, languageSettings) ==
    FindMarker(currentLines, nextLineIndex + 1, contextAwareSettings.endMarkerTemplate,
               languageSettings.endMarkerTemplate)

\* the end of the span a repair replaces (lines 486-501): the next directive
\* line within the window, else the last line looked at
RECURSIVE RepairEndFrom(_, _, _, _, _)
RepairEndFrom(currentLines, j, maxLines, settings, replacementEndLine) ==
    IF j >= maxLines THEN replacementEndLine
    ELSE IF MatchInclude(At(currentLines, j), settings).ok THEN j
    ELSE RepairEndFrom(currentLines, j + 1, maxLines, settings, j)

RepairEndLine(currentLines, nextLineIndex, settings) ==
    RepairEndFrom(currentLines, nextLineIndex + 1,
                  Min(Len(currentLines), nextLineIndex + LookaheadWindow),
                  settings, nextLineIndex + 1)

\* newContent.split("\n") with its empty last line popped (lines 461-464)
PopEmptyLast(newContentLines) ==
    IF newContentLines[Len(newContentLines)] = << >>
    THEN SubSeq(newContentLines, 1, Len(newContentLines) - 1)
    ELSE newContentLines

\* the running offset after a replace of oldLineCount lines by newContent
\* (lines 456-475)
OffsetAfterReplace(lineOffset, newContent, oldLineCount) ==
    lineOffset + ((Len(newContent) - 1) - oldLineCount)

\* the running offset after an insert (line 575)
OffsetAfterInsert(lineOffset, newContentLines) == lineOffset + (Len(newContentLines) - 1)

\* One turn of updateDocument's loop (lines 347-582) for the include map's
\* entry (lineNumber, content).  st.document is the document in the editor,
\* st.currentLines the loop's own copy of its lines, st.lineOffset the running
\* offset, st.edits the edits applied so far, each with the line the document
\* held at adjustedLine when the edit was applied (target).  A negative
\* adjustedLine reads
\* undefined from the array and the call of match on it throws: the catch of
\* updateDocument (lines 584-588) reports it and the loop's remaining turns are
\* not run (st.error).
UpdateOne(st, lineNumber, content) ==
    LET currentLines == st.currentLines
        languageSettings == getLanguageSettings(DocLanguage)
        adjustedLine == lineNumber + st.lineOffset
        includeLine == At(currentLines, adjustedLine)
        indentation == Indentation(includeLine)
        indentedContent ==
            _neutralizeNestedIncludes(IndentContent(content, indentation), languageSettings)
        includePathMatch == KeywordMatchFrom(includeLine, 0)
        includePath == IF includePathMatch.ok THEN includePathMatch.path ELSE << >>
        resolvedPath == _resolveIncludePath(DocPath, includePath)
        contextAwareSettings ==
            getContextAwareSettings(DocLanguage, includeLine, resolvedPath)
        indentedStartMarker == indentation \o contextAwareSettings.startMarkerTemplate
        indentedEndMarker == indentation \o contextAwareSettings.endMarkerTemplate
        nextLineIndex == adjustedLine + 1
        nextLineTrimmed == Trim(At(currentLines, nextLineIndex))
        endLine == UpdateEndLine(currentLines, nextLineIndex, contextAwareSettings,
                                 languageSettings)
        replacementEndLine == RepairEndLine(currentLines, nextLineIndex, contextAwareSettings)
        block == <<indentedStartMarker>> \o indentedContent \o <<indentedEndMarker, << >> >>
        replaced(kind, endExclusive) ==
            [ document |-> applyEdit(st.document, nextLineIndex, 0, endExclusive, 0, block),
              currentLines |-> splice(currentLines, nextLineIndex,
                                      endExclusive - nextLineIndex, PopEmptyLast(block)),
              lineOffset |-> OffsetAfterReplace(st.lineOffset, block,
                                                endExclusive - nextLineIndex),
              edits |-> Append(st.edits, [kind |-> kind, lineNumber |-> lineNumber,
                                          at |-> nextLineIndex,
                                          target |-> LineAt(st.document, adjustedLine)]),
              error |-> FALSE ]
        insertText == << << >> >> \o block
    IN  IF adjustedLine >= Len(currentLines) THEN st
        ELSE IF adjustedLine < 0 THEN [st EXCEPT !.error = TRUE]
        ELSE IF nextLineIndex >= Len(currentLines) THEN st
        ELSE IF \/ nextLineTrimmed = Trim(contextAwareSettings.startMarkerTemplate)
                \/ nextLineTrimmed = Trim(languageSettings.startMarkerTemplate)
        THEN IF endLine # -1 THEN replaced("replace", endLine + 1)
             ELSE replaced("repair", replacementEndLine)
        ELSE [ document |-> applyEdit(st.document, adjustedLine, Len(includeLine),
                                      adjustedLine, Len(includeLine), insertText),
               currentLines |-> splice(currentLines, adjustedLine + 1, 0,
                                       Tail(PopEmptyLast(insertText))),
               lineOffset |-> OffsetAfterInsert(st.lineOffset, PopEmptyLast(insertText)),
               edits |-> Append(st.edits, [kind |-> "insert", lineNumber |-> lineNumber,
                                           at |-> adjustedLine,
                                           target |-> LineAt(st.document, adjustedLine)]),
               error |-> FALSE ]

\* the loop over the include map's entries with the sort of lines 344-346
\* turned round: the entry of the greatest line first
RECURSIVE UpdateFromDescending(_, _, _)
UpdateFromDescending(st, includeMap, todo) ==
    IF todo = {} \/ st.error THEN st
    ELSE LET lineNumber == CHOOSE n \in todo : \A m \in todo : n >= m
         IN  UpdateFromDescending(UpdateOne(st, lineNumber, includeMap[lineNumber]),
                                  includeMap, todo \ {lineNumber})

\* the include map's entries in ascending line order (lines 344-346)
RECURSIVE UpdateFrom(_, _, _)
UpdateFrom(st, includeMap, todo) ==
    IF todo = {} \/ st.error THEN st
    ELSE LET lineNumber == CHOOSE n \in todo : \A m \in todo : n <= m
         IN  UpdateFrom(UpdateOne(st, lineNumber, includeMap[lineNumber]), includeMap,
                        todo \ {lineNumber})

\* updateDocument (lines 311-593) on an open document
updateDocument(lines, includeMap) ==
    UpdateFrom([document |-> lines, currentLines |-> lines, lineOffset |-> 0,
                edits |-> << >>, error |-> FALSE],
               includeMap, DOMAIN includeMap)

(* ------------------------------ the system ---------------------------- *)

\* bounds of the model
MaxDocLines == 9
MaxEnvSteps == 1

\* lines a document or a file may hold
Empty == << >>
TextLine == <<"t">>
Directive(cs, gap, path) == cs \o gap \o <<VI, SP, QUOTE>> \o path \o <<QUOTE>>
IncludeB == Directive(<<HASH>>, <<SP>>, <<"b.md">>)
IncludeD == Directive(<<HASH>>, <<SP>>, <<"d.js">>)
IncludeBIndented == <<SP, SP>> \o IncludeB
IncludeSelfPlain == Directive(<<HASH>>, <<SP>>, <<"A.py">>)
IncludeSelfRelative == Directive(<<HASH>>, <<SP>>, <<".", SEP, "A.py">>)
IncludeSelfAbsolute == Directive(<<HASH>>, <<SP>>, DocPath)
IncludeSelfOtherCase == Directive(<<HASH>>, <<SP>>, <<"a.py">>)
IncludeDTight == Directive(<<HASH>>, << >>, <<"d.js">>)
IncludeDWith == Directive(<<SLASHES>>, <<SP>>, <<"d.js">>) \o <<SP, WithWord, SP, QUOTE, SLASHES, QUOTE>>
StartMarker == Trim(getLanguageSettings(DocLanguage).startMarkerTemplate)
EndMarker == Trim(getLanguageSettings(DocLanguage).endMarkerTemplate)

\* the documents the editor may open
InitDocuments ==
    { <<IncludeB>>,
      <<IncludeB, Empty>>,
      <<TextLine, IncludeBIndented, TextLine>>,
      <<IncludeB, IncludeD, Empty>>,
      <<IncludeB, TextLine, IncludeD, TextLine>>,
      <<IncludeSelfRelative, IncludeB, Empty>>,
      <<IncludeB, IncludeSelfPlain, IncludeD, Empty>>,
      <<IncludeSelfOtherCase, IncludeSelfAbsolute, Empty>>,
      <<IncludeB, IncludeD, IncludeB, Empty>>,
      <<IncludeB, StartMarker, <<"old">>, EndMarker, EndMarker, TextLine>>,
      <<IncludeB, StartMarker, <<"old">>, EndMarker>>,
      <<IncludeB, StartMarker, <<"old">>, TextLine>>,
      <<IncludeB, StartMarker, <<"old">>, IncludeDWith, TextLine>> }

\* the contents a source file may have
ContentsB ==
    { << <<"x">> >>,
      << <<"x">>, Empty, <<"y">> >>,
      << IncludeD >>,
      << <<"x">>, IncludeDTight >>,
      << IncludeDWith >>,
      << <<"x">>, EndMarker, <<"y">> >> }
ContentsD == { << <<"z">> >> }
Contents(p) == IF p = FileB THEN ContentsB ELSE ContentsD

NoPass == [before |-> << >>, kinds |-> << >>, sources |-> {}, edits |-> << >>,
           error |-> FALSE, issueCount |-> 0]

\* how many passes or source-change handlers may be in flight at once, and
\* how many passes, user edits and file writes a behaviour of the handlers has
MaxInFlight == 2
MaxStarted == 2
MaxUserEdits == 1
MaxSourceChanges == 1
SlotIds == 1..MaxInFlight

\* a slot with nothing in flight
Idle == [stage |-> "idle", origin |-> "none", includeMap |-> << >>, todo |-> {},
         currentLines |-> << >>, lineOffset |-> 0, landed |-> 0]

\* no change event handled
NoChange == [text |-> << >>, line |-> -1, protectedCall |-> FALSE, gate |-> FALSE,
             warned |-> FALSE, scheduled |-> FALSE, typing |-> FALSE]

\* no call of manager.processDocument has ended
NoReport == [doc |-> "none", fault |-> "none", failed |-> FALSE, errors |-> 0,
             rejected |-> FALSE]

\* no language rules resolved yet
NoResolution == [context |-> << >>, config |-> << >>, settings |-> << >>]

\* the event registrations _registerEventHandlers pushes to _disposables
\* (virtual-include-manager.ts lines 261-267)
EventHandlers ==
    {"onDocumentOpen", "onDocumentSave", "onDocumentChange", "onActiveEditorChange",
     "onWillSaveTextDocument"}

\* nothing in flight, nothing armed (virtual-include-manager.ts line 30), and
\* no second document with directives
HandlersAtRest ==
    /\ second = << << >> >>
    /\ report = NoReport
    /\ isPerformingUpdate = FALSE
    /\ isClosed = FALSE
    /\ slots = [id \in SlotIds |-> Idle]
    /\ timers = {}
    /\ ui = {}
    /\ change = NoChange
    /\ started = 0
    /\ resolution = NoResolution
    /\ disposables = EventHandlers
    /\ documentWatchers = << >>
    /\ watchers = << >>

Init ==
    /\ HandlersAtRest
    /\ platform \in {"posix", "win32"}
    /\ document \in InitDocuments
    /\ fs \in [SourcePaths -> ContentsB \cup ContentsD \cup {Missing}]
    /\ \A p \in SourcePaths : fs[p] \in Contents(p) \cup {Missing}
    /\ sourceToDocuments = << >>
    /\ documentIncludes = << >>
    /\ pass = NoPass
    /\ quiet = 0
    /\ sourceChanges = 0
    /\ userEdits = 0

\* the include map the scan builds (line 120)
IncludeMapOf(scan) ==
    [n \in {i \in 0..(Len(scan) - 1) : At(scan, i).kind = "include"} |-> At(scan, n).content]

\* the source mapping after the scan's additions (lines 122-131): nothing is
\* taken out of it
TrackSources(mapping, scan) ==
    LET added == {At(scan, i).resolvedPath :
                      i \in {j \in 0..(Len(scan) - 1) : At(scan, j).kind = "include"}}
    IN  [p \in (DOMAIN mapping) \cup added |->
            (IF p \in DOMAIN mapping THEN mapping[p] ELSE {})
            \cup (IF p \in added THEN {DocKey} ELSE {})]

\* the end of processDocument (lines 233-241): updateDocument runs when the
\* scan marked the document as needing an edit
ApplyScan(lines, scan) ==
    IF \E i \in 1..Len(scan) : scan[i].needsEdit
    THEN updateDocument(lines, IncludeMapOf(scan))
    ELSE [document |-> lines, currentLines |-> lines, lineOffset |-> 0,
          edits |-> << >>, error |-> FALSE]

\* the document's own file, which is on disk whenever the document is open
\* from it: a win32 disk finds it under any case of its name
DocumentOnDisk(plat, resolvedPath) ==
    IF plat = "win32" THEN toLowerCase(FileOf(resolvedPath)) = toLowerCase(DocPath)
    ELSE FileOf(resolvedPath) = DocPath

\* DiagnosticsManager.resolveIncludePath
resolveIncludePath(documentPath, includePath) ==
    IF isAbsolute(includePath) THEN includePath
    ELSE resolve(dirname(documentPath), includePath)

\* DiagnosticsManager.checkDocument: the number of diagnostics it creates, one
\* for each line that matches the include pattern of the document's language
\* and names a file that is not on disk
checkDocument(lines, disk, plat) ==
    LET languageSettings == getLanguageSettings(DocLanguage)
        flagged(i) ==
            LET match == MatchInclude(At(lines, i), languageSettings)
                resolvedPath == resolveIncludePath(DocPath, match.path)
            IN  /\ match.ok
                /\ ~(existsSync(disk, resolvedPath) \/ DocumentOnDisk(plat, resolvedPath))
    IN  Cardinality({i \in 0..(Len(lines) - 1) : flagged(i)})

\* the watchers a list holds
WatcherIds(list) == {list[k] : k \in DOMAIN list}

\* the start of a pass with its disposing loop left out
ClearWatchersForgetting(key, stored, live) ==
    [documentWatchers |-> [k \in (DOMAIN stored) \ {key} |-> stored[k]],
     watchers |-> live]

\* the start of a pass (lines 61-69): every watcher stored for the document is
\* disposed and the document's entry is deleted
ClearWatchers(key, stored, live) ==
    LET old == IF key \in DOMAIN stored THEN WatcherIds(stored[key]) ELSE {}
    IN  [documentWatchers |-> [k \in (DOMAIN stored) \ {key} |-> stored[k]],
         watchers |-> [id \in (DOMAIN live) \ old |-> live[id]]]

\* fileWatcher.createWatcher for each path in turn (lines 212-215): a new
\* watcher is none of those in used, the watchers not disposed
RECURSIVE CreateWatchers(_, _)
CreateWatchers(paths, used) ==
    IF paths = << >> THEN << >>
    ELSE LET free == {n \in 1..(Cardinality(used) + 1) : n \notin used}
             id == CHOOSE n \in free : \A m \in free : n <= m
         IN  <<[id |-> id, sourcePath |-> Head(paths)]>>
             \o CreateWatchers(Tail(paths), used \cup {id})

\* the watchers after the scan of the document (lines 61-74, 212-231): the
\* stored ones disposed, one created for each directive whose file exists,
\* and the new ones stored
RebuildWatchers(key, stored, live, scan) ==
    LET cleared == ClearWatchers(key, stored, live)
        accepted == SelectSeq(scan, LAMBDA r : r.kind = "include")
        made == CreateWatchers([k \in 1..Len(accepted) |-> accepted[k].resolvedPath],
                               DOMAIN cleared.watchers)
        ids == [k \in 1..Len(made) |-> made[k].id]
    IN  [documentWatchers |->
             [k \in (DOMAIN cleared.documentWatchers) \cup {key} |->
                 IF k = key THEN ids ELSE cleared.documentWatchers[k]],
         watchers |->
             [id \in (DOMAIN cleared.watchers) \cup WatcherIds(ids) |->
                 IF id \in WatcherIds(ids)
                 THEN made[CHOOSE k \in 1..Len(made) : made[k].id = id].sourcePath
                 ELSE cleared.watchers[id]]]

\* VirtualIncludeManager.processDocument on the open document: the diagnostics
\* count the issues, then DocumentProcessor.processDocument (lines 52-246) runs
ProcessDocument ==
    /\ Len(document) <= MaxDocLines
    /\ \E scan \in {Scan(document, fs, platform)} :
         \E result \in {ApplyScan(document, scan)} :
           /\ documentIncludes' = (DocKey :> IncludeMapOf(scan))
           /\ sourceToDocuments' = TrackSources(sourceToDocuments, scan)
           /\ \E w \in {RebuildWatchers(DocKey, documentWatchers, watchers, scan)} :
                  /\ documentWatchers' = w.documentWatchers
                  /\ watchers' = w.watchers
           /\ document' = result.document
           /\ pass' = [before |-> document,
                       kinds |-> [k \in 1..Len(scan) |-> scan[k].kind],
                       sources |-> {scan[k].resolvedPath :
                                       k \in {j \in 1..Len(scan) : scan[j].kind = "include"}},
                       edits |-> result.edits,
                       error |-> result.error,
                       issueCount |-> checkDocument(document, fs, platform)]
           /\ quiet' = IF result.error THEN 0 ELSE Min(quiet + 1, 2)
    /\ UNCHANGED <<platform, fs, sourceChanges, userEdits>>
    /\ UNCHANGED handlerVars

\* a source file is written, created or deleted on disk
ChangeSource(p, c) ==
    /\ sourceChanges + userEdits < MaxEnvSteps
    /\ c # fs[p]
    /\ fs' = [fs EXCEPT ![p] = c]
    /\ quiet' = 0
    /\ sourceChanges' = sourceChanges + 1
    /\ UNCHANGED <<platform, document, sourceToDocuments, documentIncludes, pass, userEdits>>
    /\ UNCHANGED <<handlerVars, watcherVars>>

\* the user deletes line i of the document
UserDeleteLine(i) ==
    /\ sourceChanges + userEdits < MaxEnvSteps
    /\ Len(document) > 1
    /\ document' = Slice(document, 0, i) \o Slice(document, i + 1, Len(document))
    /\ quiet' = 0
    /\ userEdits' = userEdits + 1
    /\ UNCHANGED <<platform, fs, sourceToDocuments, documentIncludes, pass, sourceChanges>>
    /\ UNCHANGED <<handlerVars, watcherVars>>

Next ==
    \/ ProcessDocument
    \/ \E p \in SourcePaths : \E c \in Contents(p) \cup {Missing} : ChangeSource(p, c)
    \/ \E i \in 0..(Len(document) - 1) : UserDeleteLine(i)

Spec == Init /\ [][Next]_vars

(* ------------------------ reading a document -------------------------- *)

\* the marker lines a region may carry: those of the document's language and
\* those of the "//" comment style
StartMarkers ==
    {Trim(getLanguageSettings(l).startMarkerTemplate) : l \in {"python", "javascript"}}
EndMarkers ==
    {Trim(getLanguageSettings(l).endMarkerTemplate) : l \in {"python", "javascript"}}
IsStart(line) == Trim(line) \in StartMarkers
IsEnd(line) == Trim(line) \in EndMarkers

\* the scanner takes the line for a directive, and the path it reads from it
IsLive(line) == MatchInclude(line, getContextAwareSettings(DocLanguage, line, << >>)).ok
DirectivePath(line) ==
    IF MatchOverride(line).ok THEN MatchOverride(line).path
    ELSE MatchInclude(line, getContextAwareSettings(DocLanguage, line, << >>)).path
IsSelf(line) == IsLive(line) /\ _isSelfInclude(platform, DocPath, DirectivePath(line))

HasKeyword(line) == \E j \in 1..Len(line) : line[j] = VI

\* a content with no directive and no marker line in it
PlainContent(c) ==
    \A k \in 1..Len(c) : ~HasKeyword(c[k]) /\ ~IsStart(c[k]) /\ ~IsEnd(c[k])

Starts(lines) == {k \in 0..(Len(lines) - 1) : IsStart(At(lines, k))}
Ends(lines) == {k \in 0..(Len(lines) - 1) : IsEnd(At(lines, k))}
Unmarked(lines) == Starts(lines) = {} /\ Ends(lines) = {}

\* the directive lines that have a start marker on the next line
Expanded(lines) ==
    {k \in 0..(Len(lines) - 2) : IsLive(At(lines, k)) /\ IsStart(At(lines, k + 1))}

\* the first end marker at or after line from, or -1
FirstEnd(lines, from) ==
    LET later == {j \in Ends(lines) : j >= from}
    IN  IF later = {} THEN -1 ELSE CHOOSE j \in later : \A m \in later : j <= m

\* the last scan: the lines it took for a directive, and those it accepted
Matched == {i \in 0..(Len(pass.kinds) - 1) : At(pass.kinds, i) # "none"}
Accepted == {i \in 0..(Len(pass.kinds) - 1) : At(pass.kinds, i) = "include"}
Rejected == {i \in 0..(Len(pass.kinds) - 1) : At(pass.kinds, i) = "self"}

\* the include map of the document after the last pass
IncludeMap == IF DocKey \in DOMAIN documentIncludes THEN documentIncludes[DocKey] ELSE << >>

StripIndent(line, indentation) ==
    IF HasAt(line, 0, indentation) THEN Slice(line, Len(indentation), Len(line)) ELSE line

(* ------------------------------ properties ---------------------------- *)

\* C1: a pass that follows a completed pass, with the document text and every
\* source file unchanged in between, applies no edit to the document (stated
\* here for the documents with one directive line).
C1_SecondPassAppliesNoEdit ==
    (quiet = 2 /\ Cardinality(Matched) = 1) => pass.edits = << >>

\* C2: after one pass over a document with one directive line, not yet
\* expanded, whose file exists with a plain content C, the directive line is
\* followed by a start marker, the lines of C each behind the directive's
\* indentation when not empty, and an end marker; taking the indentation off
\* the lines between the markers gives C.
C2_InsertRoundTrip ==
    \A i \in Accepted :
        (/\ quiet = 1
         /\ Matched = {i}
         /\ Unmarked(pass.before)
         /\ PlainContent(IncludeMap[i]))
        => LET line == At(pass.before, i)
               C == IncludeMap[i]
               first == i + 2
           IN  /\ Len(document) >= first + Len(C) + 1
               /\ At(document, i) = line
               /\ IsStart(At(document, i + 1))
               /\ Slice(document, first, first + Len(C)) = IndentContent(C, Indentation(line))
               /\ IsEnd(At(document, first + Len(C)))
               /\ [k \in 1..Len(C) |->
                      StripIndent(At(document, first + k - 1), Indentation(line))] = C

\* the lines of d.js on disk
LinesOfD == {fs[FileD][k] : k \in 1..Len(fs[FileD])}

\* the content of b.md holds a directive line, which references d.js
NestsD(c) == \E k \in 1..Len(c) : HasKeyword(c[k])

\* C3: document A includes b.md and not d.js, and b.md holds a directive
\* referencing d.js: after any number of passes (nothing else changing) no line
\* of A is a live directive referencing d.js, and no line of d.js is in A.
C3_NestedNeverExpanded ==
    (/\ sourceChanges = 0
     /\ userEdits = 0
     /\ NestsD(fs[FileB])
     /\ \A k \in 1..Len(document) : document[k] # IncludeD)
    => \A k \in 1..Len(document) :
           /\ ~(IsLive(document[k]) /\ DirectivePath(document[k]) = <<"d.js">>)
           /\ document[k] \notin LinesOfD

\* C4: no line strictly between the start marker and the end marker of an
\* accepted directive's region is taken for a directive by the scan (the user
\* having edited nothing).
C4_RegionLinesInert ==
    userEdits = 0 =>
        \A i \in Accepted :
            (i + 1 < Len(pass.before) /\ IsStart(At(pass.before, i + 1)))
            => \A k \in (i + 2)..(FirstEnd(pass.before, i + 2) - 1) : k \notin Matched

\* C5: a directive whose resolved path is the document's own path is rejected:
\* its line enters neither the include map nor the source mapping, and no
\* start or end marker stands on the line after it (the user having edited
\* nothing; the one warning of each rejected line is its kind "self").
C5_SelfIncludeRejected ==
    userEdits = 0 =>
        /\ \A i \in Rejected : i \notin DOMAIN IncludeMap
        /\ \A p \in DOMAIN sourceToDocuments : ~_isSelfInclude(platform, DocPath, p)
        /\ \A k \in 0..(Len(document) - 2) :
               IsSelf(At(document, k))
               => ~IsStart(At(document, k + 1)) /\ ~IsEnd(At(document, k + 1))

\* C6: a pass over a document, not yet expanded, that holds a self-including
\* directive and directives to other existing files expands every one of the
\* other directives: after the pass each of their lines is in the document
\* with a start marker on the line after it.
C6_OthersStillExpanded ==
    (quiet = 1 /\ Rejected # {} /\ Unmarked(pass.before))
    => \A i \in Accepted :
           \E k \in 0..(Len(document) - 2) :
               At(document, k) = At(pass.before, i) /\ IsStart(At(document, k + 1))

\* C7: the source mapping holds the document under a source only if the
\* document's most recent scan accepted a directive resolving to that source.
C7_NoStaleMapping ==
    \A S \in DOMAIN sourceToDocuments :
        DocKey \in sourceToDocuments[S] => S \in pass.sources

\* C8: in a pass that applies several edits, each edit after the first is
\* applied where its directive's line stands in the document at that moment.
C8_LaterEditsOnTheirLine ==
    \A j \in 2..Len(pass.edits) :
        pass.edits[j].target = At(pass.before, pass.edits[j].lineNumber)

\* the document has as many start markers as end markers as expanded directives
Balanced(lines) ==
    /\ Cardinality(Starts(lines)) = Cardinality(Ends(lines))
    /\ Cardinality(Starts(lines)) = Cardinality(Expanded(lines))

\* no source file holds a marker line
NoMarkerInFiles ==
    \A p \in SourcePaths : \A k \in 1..Len(fs[p]) : ~IsStart(fs[p][k]) /\ ~IsEnd(fs[p][k])

\* C9: whatever the source files have become (no marker line in them), a pass
\* over a document with as many start markers as end markers as expanded
\* directives leaves it so (the user editing nothing in the step).
C9_MarkersStayPaired ==
    [][(Balanced(document) /\ NoMarkerInFiles /\ userEdits' = userEdits)
       => Balanced(document')]_vars

\* C10: after a pass over a document whose one directive, accepted with a
\* plain content, had a region with two or more end markers after its start
\* marker, the whole span through the last of them is replaced: one end marker
\* is left in the document.
C10_LastEndMarkerBounds ==
    \A i \in Accepted :
        (/\ quiet >= 1
         /\ Matched = {i}
         /\ PlainContent(IncludeMap[i])
         /\ i + 1 < Len(pass.before)
         /\ IsStart(At(pass.before, i + 1))
         /\ Cardinality({j \in Ends(pass.before) : j > i + 1}) >= 2)
        => Cardinality(Ends(document)) = 1

(* ------------------- missing files and the issue count ---------------- *)

\* the last scan: the directives whose file was not found
NotFound == {i \in 0..(Len(pass.kinds) - 1) : At(pass.kinds, i) = "missing"}

\* C16: a directive whose file does not exist is not in the include map and
\* no edit of the pass lands on its line (no markers go in after it), while
\* every directive the scan accepted is in the include map
C16_MissingFileLeftAlone ==
    pass # NoPass =>
        /\ \A i \in NotFound :
              /\ i \notin DOMAIN IncludeMap
              /\ \A k \in 1..Len(pass.edits) : pass.edits[k].target # At(pass.before, i)
        /\ Accepted \subseteq DOMAIN IncludeMap

\* C17: the issue count of a pass is the number of its directives whose file
\* was not found plus the number of its rejected self-includes
C17_IssueCountIsMissingPlusSelf ==
    pass # NoPass => pass.issueCount = Cardinality(NotFound) + Cardinality(Rejected)

(* ------------------ the handlers, one await at a time ----------------- *)
\* A pass is manager.processDocument from its call to its return.  The host
\* runs one callback at a time, and between two awaits of a pass any other
\* callback may run: each action below is one such uninterrupted run.

\* Constants.VIRTUAL_INCLUDE_REGEX: /^\s*# virtualInclude\s+["'](.+?)["']\s*$/
VIRTUAL_INCLUDE_REGEX(line) ==
    LET h == LeadingSpaces(line)
        a == SkipSpaces(line, h + 3)
        last == Len(line) - TrailingSpaces(line) - 1
    IN  /\ HasAt(line, h, <<HASH, SP, VI>>)
        /\ a > h + 3 /\ a < Len(line) /\ At(line, a) = QUOTE
        /\ last > a + 1 /\ At(line, last) = QUOTE

\* change.text.includes('#') || includes('virtualInclude') || includes('"')
\* (virtual-include-manager.ts line 214), symbol by symbol
MightHaveInclude(text) ==
    \E k \in 1..Len(text) : text[k] \in {HASH, VI, "virtualIncludeStart", "virtualIncludeEnd"}

\* the complete regions handleProtectedEdits finds (lines 59-79), from line i on
RECURSIVE ProtectedRegionsFrom(_, _, _, _)
ProtectedRegionsFrom(lines, i, inProtectedRegion, currentStart) ==
    IF i >= Len(lines) THEN {}
    ELSE IF Trim(At(lines, i)) = Trim(getLanguageSettings(DocLanguage).startMarkerTemplate)
    THEN ProtectedRegionsFrom(lines, i + 1, TRUE, i)
    ELSE IF Trim(At(lines, i)) = Trim(getLanguageSettings(DocLanguage).endMarkerTemplate)
            /\ inProtectedRegion
    THEN (IF currentStart # -1 THEN {[start |-> currentStart, end |-> i]} ELSE {})
         \cup ProtectedRegionsFrom(lines, i + 1, FALSE, -1)
    ELSE ProtectedRegionsFrom(lines, i + 1, inProtectedRegion, currentStart)

\* the overlap test of an edit's range with a region's content lines
\* (edit-protection.ts lines 96-102)
OverlapsContent(region, startLine, endLine) ==
    LET protectedContentStart == region.start + 1
        protectedContentEnd == region.end - 1
    IN  \/ startLine >= protectedContentStart /\ startLine <= protectedContentEnd
        \/ endLine >= protectedContentStart /\ endLine <= protectedContentEnd
        \/ startLine < protectedContentStart /\ endLine > protectedContentEnd

\* handleProtectedEdits with its first check left out
handleProtectedEditsUngated(gate, lines, startLine, endLine) ==
    \E region \in ProtectedRegionsFrom(lines, 0, FALSE, -1) :
        OverlapsContent(region, startLine, endLine)

\* EditProtection.handleProtectedEdits (lines 47-134) on one change with the
\* range startLine..endLine, the flag being gate: whether it shows the
\* warning and arms the restoring timer (needsImmedateReprocess)
handleProtectedEdits(gate, lines, startLine, endLine) ==
    /\ ~gate
    /\ \E region \in ProtectedRegionsFrom(lines, 0, FALSE, -1) :
           OverlapsContent(region, startLine, endLine)

Least(S) == CHOOSE n \in S : \A m \in S : n <= m

\* one turn of updateDocument's loop for entry n, the editor holding doc
Turn(cur, off, doc, includeMap, n) ==
    UpdateOne([document |-> doc, currentLines |-> cur, lineOffset |-> off,
               edits |-> << >>, error |-> FALSE], n, includeMap[n])

\* the turn for the entry of line n throws when its adjusted line is negative
\* (the read of currentLines[adjustedLine] gives undefined, line 363)
Throws(cur, off, n) == n + off < 0

\* the turn for the entry of line n awaits an edit or throws; any other turn
\* goes on to the next entry at once (the "continue" of lines 354-361 and 400-406)
ReachesAwait(cur, off, n) == Throws(cur, off, n) \/ n + off + 1 < Len(cur)

\* the entries left from the first one whose turn awaits or throws
RECURSIVE Pending(_, _, _)
Pending(cur, off, todo) ==
    IF todo = {} THEN {}
    ELSE IF ReachesAwait(cur, off, Least(todo)) THEN todo
    ELSE Pending(cur, off, todo \ {Least(todo)})

\* the handlers of a source change: origin "watcher" when the handler found
\* the document with unsaved changes (wasDirty, file-watcher line 136),
\* "watcherClean" when it found it saved
WatcherOrigins == {"watcher", "watcherClean"}

\* where a handler stands once its pass has returned: handleSourceFileChange
\* still has its auto-save and its notification to do (file-watcher lines 141-179)
AfterPass(origin) ==
    IF origin \in WatcherOrigins THEN [Idle EXCEPT !.stage = "saving", !.origin = origin]
    ELSE Idle

\* an updateDocument whose finally block does not touch the flag
GateLeftAsIs(gate) == gate

\* the finally of updateDocument (lines 589-592)
GateAtFinally(gate) == FALSE

\* the flag once the pass has returned to the handler that called it: the
\* restoring timer resets it in its own finally (edit-protection.ts lines 124-129)
GateAfterPass(origin, gate) == IF origin = "restore" THEN FALSE ELSE gate

\* updateDocument from a turn of its loop up to its next await, or to its
\* end through the catch (lines 584-588) and the finally (lines 589-592)
Loop(origin, cur, off, includeMap, todo, landed, gate) ==
    LET rest == Pending(cur, off, todo)
    IN  IF rest # {} /\ ~Throws(cur, off, Least(rest))
        THEN [slot |-> [stage |-> "editing", origin |-> origin, includeMap |-> includeMap,
                        todo |-> rest, currentLines |-> cur, lineOffset |-> off,
                        landed |-> landed],
              gate |-> gate, ui |-> {}]
        ELSE [slot |-> AfterPass(origin),
              gate |-> GateAfterPass(origin, GateAtFinally(gate)),
              ui |-> IF rest # {} THEN {"errorUpdate"} ELSE {}]

\* what the scan shows: a warning for a self-include (line 107), an error for
\* a file not found (line 217)
ScanMessages(scan) ==
    {"warnSelf" : i \in {j \in 1..Len(scan) : scan[j].kind = "self"}}
    \cup {"errorNotFound" : i \in {j \in 1..Len(scan) : scan[j].kind = "missing"}}

\* manager.processDocument from its call up to its first await or its end:
\* the scan, then updateDocument when an edit is needed (lines 233-241), which
\* sets the flag and looks once whether the document is closed (lines 315-323)
Begin(origin, scan, lines, closed, gate) ==
    IF ~(\E i \in 1..Len(scan) : scan[i].needsEdit)
    THEN [slot |-> AfterPass(origin),
          gate |-> GateAfterPass(origin, gate),
          ui |-> ScanMessages(scan)]
    ELSE IF closed
    THEN [slot |-> AfterPass(origin), gate |-> GateAfterPass(origin, GateAtFinally(TRUE)),
          ui |-> ScanMessages(scan) \cup {"logClosed"}]
    ELSE [Loop(origin, lines, 0, IncludeMapOf(scan), DOMAIN IncludeMapOf(scan), 0, TRUE)
             EXCEPT !.ui = @ \cup ScanMessages(scan)]

\* the documents and the files the handlers start from: a document with two
\* directives not yet expanded, and one whose region is complete and current
MarkerStartLine == getLanguageSettings(DocLanguage).startMarkerTemplate
MarkerEndLine == getLanguageSettings(DocLanguage).endMarkerTemplate
HandlerDocuments ==
    { <<IncludeB, IncludeD, Empty>>,
      <<IncludeB, MarkerStartLine, <<"x">>, MarkerEndLine, Empty>> }
HandlerFiles == [p \in SourcePaths |-> IF p = FileB THEN << <<"x">> >> ELSE << <<"z">> >>]
NewContents == { << <<"y">> >> }

\* what the user may type at the end of a line
UserTexts == { <<"q">>, <<HASH>> }

InitHandlers ==
    /\ HandlersAtRest
    /\ platform = "posix"
    /\ document \in HandlerDocuments
    /\ fs = HandlerFiles
    /\ sourceToDocuments = << >>
    /\ documentIncludes = << >>
    /\ pass = NoPass
    /\ quiet = 0
    /\ sourceChanges = 0
    /\ userEdits = 0

\* the slot a new pass or handler takes
FreeSlot(id) ==
    /\ slots[id].stage = "idle"
    /\ id = Least({j \in SlotIds : slots[j].stage = "idle"})

\* manager.processDocument is called by a handler of the given origin, the
\* flag being gate at the call
StartPass(id, origin, gate) ==
    /\ \E scan \in {Scan(document, fs, platform)} :
         \E r \in {Begin(origin, scan, document, isClosed, gate)} :
           /\ slots' = [slots EXCEPT ![id] = r.slot]
           /\ isPerformingUpdate' = r.gate
           /\ ui' = r.ui
           /\ documentIncludes' = (DocKey :> IncludeMapOf(scan))
           /\ sourceToDocuments' = TrackSources(sourceToDocuments, scan)
           /\ \E w \in {RebuildWatchers(DocKey, documentWatchers, watchers, scan)} :
                  /\ documentWatchers' = w.documentWatchers
                  /\ watchers' = w.watchers
    /\ change' = NoChange
    /\ UNCHANGED <<resolution, disposables,
                   second, report, platform, document, fs, pass, quiet, userEdits,
                   isClosed>>

\* the command, or the open, save or active-editor event of a visible editor
\* (virtual-include-manager.ts lines 178-199 and 249-253)
Trigger(id) ==
    /\ ~isClosed
    /\ FreeSlot(id)
    /\ started < MaxStarted
    /\ StartPass(id, "trigger", isPerformingUpdate)
    /\ started' = started + 1
    /\ UNCHANGED <<timers, sourceChanges>>

\* the timer armed by a change on a directive line fires
\* (virtual-include-manager.ts lines 234-236): nothing is looked at first; a
\* behaviour has at most maxStarted passes
TypingTimerFiresWithin(maxStarted, id) ==
    /\ "typing" \in timers
    /\ FreeSlot(id)
    /\ started < maxStarted
    /\ StartPass(id, "trigger", isPerformingUpdate)
    /\ timers' = timers \ {"typing"}
    /\ started' = started + 1
    /\ UNCHANGED sourceChanges

TypingTimerFires(id) == TypingTimerFiresWithin(MaxStarted, id)

\* the restoring timer fires (edit-protection.ts lines 120-131)
RestoreTimerFires(id) ==
    /\ "restore" \in timers
    /\ FreeSlot(id)
    /\ started < MaxStarted
    /\ timers' = timers \ {"restore"}
    /\ IF isClosed
       THEN /\ ui' = {}
            /\ change' = NoChange
            /\ UNCHANGED <<resolution, disposables, documentWatchers, watchers,
                           second, report, platform, document, fs, sourceToDocuments,
                           documentIncludes, pass, quiet, userEdits, isPerformingUpdate,
                           isClosed, slots, started>>
       ELSE /\ StartPass(id, "restore", TRUE)
            /\ started' = started + 1
    /\ UNCHANGED sourceChanges

\* a source file is written and its watcher calls handleSourceFileChange, which
\* sets the flag and awaits openTextDocument (file-watcher lines 80-85, 111-128);
\* a behaviour has at most maxChanges writes and maxStarted passes
SourceFileChangedWithin(maxChanges, maxStarted, id, p, c) ==
    /\ sourceChanges < maxChanges
    /\ c # fs[p]
    /\ fs' = [fs EXCEPT ![p] = c]
    /\ sourceChanges' = sourceChanges + 1
    /\ ui' = {}
    /\ change' = NoChange
    /\ IF p \in DOMAIN sourceToDocuments /\ FreeSlot(id) /\ started < maxStarted
       THEN /\ isPerformingUpdate' = TRUE
            /\ slots' = [slots EXCEPT ![id] = [Idle EXCEPT !.stage = "opening",
                                                            !.origin = "watcher"]]
            /\ started' = started + 1
       ELSE /\ id = 1
            /\ p \notin DOMAIN sourceToDocuments
            /\ UNCHANGED <<isPerformingUpdate, slots, started>>
    /\ UNCHANGED <<resolution, disposables, documentWatchers, watchers,
                   second, report, platform, document, sourceToDocuments, documentIncludes,
                   pass, quiet, userEdits, isClosed, timers>>

SourceFileChanged(id, p, c) ==
    SourceFileChangedWithin(MaxSourceChanges, MaxStarted, id, p, c)

\* textDocument.isDirty (file-watcher lines 136, 142, 158) and _isActuallyDirty
\* (lines 194-213): the editor's text is not the text of the document's file;
\* a document whose file the disk of the model does not hold has unsaved changes
IsDirty(lines, disk) == DocPath \notin DOMAIN disk \/ lines # disk[DocPath]

\* openTextDocument has resolved: the pass starts if the document has a
\* visible editor, else the handler ends (file-watcher lines 129-138, 177-183)
WatcherOpened(id) ==
    /\ slots[id].stage = "opening"
    /\ IF isClosed
       THEN /\ slots' = [slots EXCEPT ![id] = Idle]
            /\ isPerformingUpdate' = FALSE
            /\ ui' = {"notifyAffected"}
            /\ change' = NoChange
            /\ UNCHANGED <<resolution, disposables, documentWatchers, watchers,
                           second, report, platform, document, fs, sourceToDocuments,
                           documentIncludes, pass, quiet, userEdits, isClosed>>
       ELSE StartPass(id, IF IsDirty(document, fs) THEN "watcher" ELSE "watcherClean",
                      isPerformingUpdate)
    /\ UNCHANGED <<timers, started, sourceChanges>>

\* the rest of handleSourceFileChange after its pass (file-watcher lines
\* 141-183): a document that was saved and now has changes makes the handler
\* wait 300 ms for its auto-save; else the notification and the finally that
\* resets the flag
WatcherDone(id) ==
    /\ slots[id].stage = "saving"
    /\ IF slots[id].origin = "watcherClean" /\ IsDirty(document, fs)
       THEN /\ slots' = [slots EXCEPT ![id] = [Idle EXCEPT !.stage = "sleeping",
                                                            !.origin = "watcherClean"]]
            /\ ui' = {}
            /\ UNCHANGED isPerformingUpdate
       ELSE /\ slots' = [slots EXCEPT ![id] = Idle]
            /\ isPerformingUpdate' = FALSE
            /\ ui' = {"notifyAffected"}
    /\ change' = NoChange
    /\ UNCHANGED <<resolution, disposables, documentWatchers, watchers,
                   second, report, platform, document, fs, sourceToDocuments,
                   documentIncludes, pass, quiet, sourceChanges, userEdits, isClosed,
                   timers, started>>

\* the edit a pass awaits is applied (lines 454, 516, 562) and the pass runs on
\* to its next await or to its end.  The change event of the edit carries
\* marker text, so its handler arms the typing timer when the cursor is on a
\* directive line of a visible editor (virtual-include-manager.ts lines 214-237).
LandEdit(id, onDirective) ==
    /\ slots[id].stage = "editing"
    /\ \E st \in {Turn(slots[id].currentLines, slots[id].lineOffset, document,
                        slots[id].includeMap, Least(slots[id].todo))} :
         \E r \in {Loop(slots[id].origin, st.currentLines, st.lineOffset,
                        slots[id].includeMap, slots[id].todo \ {Least(slots[id].todo)},
                        slots[id].landed + 1, isPerformingUpdate)} :
           /\ document' = st.document
           /\ slots' = [slots EXCEPT ![id] = r.slot]
           /\ isPerformingUpdate' = r.gate
           /\ ui' = r.ui
           /\ onDirective =>
                  \E cursor \in 0..(Len(st.document) - 1) :
                      VIRTUAL_INCLUDE_REGEX(At(st.document, cursor))
           /\ timers' = IF ~isClosed /\ onDirective THEN timers \cup {"typing"} ELSE timers
    /\ change' = NoChange
    /\ UNCHANGED <<resolution, disposables, documentWatchers, watchers,
                   second, report, platform, fs, sourceToDocuments, documentIncludes, pass,
                   quiet, sourceChanges, userEdits, isClosed, started>>

\* the user types or pastes text at the end of line i, and the change handler
\* runs (virtual-include-manager.ts lines 202-246)
UserEdit(i, text) ==
    /\ ~isClosed
    /\ userEdits < MaxUserEdits
    /\ userEdits' = userEdits + 1
    /\ \E after \in {[document EXCEPT ![i + 1] = @ \o text]} :
         \E restore \in {~MightHaveInclude(text)
                           /\ handleProtectedEdits(isPerformingUpdate, after, i, i)} :
           \E typing \in {MightHaveInclude(text) /\ VIRTUAL_INCLUDE_REGEX(At(after, i))} :
             /\ document' = after
             /\ timers' = timers \cup (IF restore THEN {"restore"} ELSE {})
                                 \cup (IF typing THEN {"typing"} ELSE {})
             /\ ui' = IF restore THEN {"warnProtected"} ELSE {}
             /\ change' = [text |-> text, line |-> i,
                           protectedCall |-> ~MightHaveInclude(text),
                           gate |-> isPerformingUpdate,
                           warned |-> restore, scheduled |-> restore, typing |-> typing]
    /\ UNCHANGED <<resolution, disposables, documentWatchers, watchers,
                   second, report, platform, fs, sourceToDocuments, documentIncludes, pass,
                   quiet, sourceChanges, isPerformingUpdate, isClosed, slots, started>>

\* the user closes the document
CloseDocument ==
    /\ ~isClosed
    /\ isClosed' = TRUE
    /\ ui' = {}
    /\ change' = NoChange
    /\ UNCHANGED <<resolution, disposables, documentWatchers, watchers,
                   second, report, platform, document, fs, sourceToDocuments,
                   documentIncludes, pass, quiet, sourceChanges, userEdits,
                   isPerformingUpdate, slots, timers, started>>

NextHandlers ==
    \/ \E id \in SlotIds : Trigger(id)
    \/ \E id \in SlotIds : TypingTimerFires(id)
    \/ \E id \in SlotIds : RestoreTimerFires(id)
    \/ \E id \in SlotIds : \E p \in SourcePaths : \E c \in NewContents :
          SourceFileChanged(id, p, c)
    \/ \E id \in SlotIds : WatcherOpened(id)
    \/ \E id \in SlotIds : WatcherDone(id)
    \/ \E id \in SlotIds : \E onDirective \in BOOLEAN : LandEdit(id, onDirective)
    \/ \E i \in 0..(Len(document) - 1) : \E text \in UserTexts : UserEdit(i, text)
    \/ CloseDocument

SpecHandlers == InitHandlers /\ [][NextHandlers]_vars

(* ---------------------- properties of the handlers -------------------- *)

\* the passes and source-change handlers in flight
InFlight == {id \in SlotIds : slots[id].stage # "idle"}
Editing == {id \in SlotIds : slots[id].stage = "editing"}

\* C11: the edits of one pass are applied as one batch: at no point where
\* another callback can run have some of the pass's edits been applied to the
\* document while others of the same pass are still to be applied.
C11_BatchLandsWhole == \A id \in Editing : slots[id].landed = 0

\* line l is a content line of a complete region of the document
OnProtectedContent(lines, l) ==
    \E region \in ProtectedRegionsFrom(lines, 0, FALSE, -1) : region.start < l /\ l < region.end

\* C12: every edit of the user on a content line of a complete region, made
\* while no programmatic update is in progress, has a pass scheduled that
\* restores the region (the restoring timer, or the timer of a change on a
\* directive line).
C12_ProtectedEditSchedulesRestore ==
    (change.line # -1 /\ ~change.gate /\ OnProtectedContent(document, change.line))
        => (change.scheduled \/ change.typing)

\* C13: at most one pass (from its scan to its last applied edit) is in flight
\* on the document at any time, whatever triggers fire.
C13_OnePassAtATime == Cardinality(Editing) <= 1

\* C14: every path that sets the flag resets it before it finishes, so the
\* flag is false whenever no pass and no source-change handler is in flight.
C14_GateFalseAtRest == InFlight = {} => isPerformingUpdate = FALSE

\* a pass has just returned through the early return for a closed document,
\* and nothing is in flight
C14_ClosedPassReturned == "logClosed" \in ui /\ InFlight = {}

\* C15: whenever handleProtectedEdits is called while the flag is set, it
\* shows no warning and schedules no restoring pass.
C15_GateSuppressesProtection ==
    (change.protectedCall /\ change.gate) =>
        /\ ~change.warned
        /\ ~change.scheduled
        /\ "warnProtected" \notin ui

\* handleProtectedEdits was called with the flag set for an edit on a content
\* line of a complete region
C15_SuppressedOnProtectedContent ==
    /\ change.protectedCall
    /\ change.gate
    /\ OnProtectedContent(document, change.line)

\* C18: once the document is closed, no pass applies a further edit to it:
\* no step taken while the document is closed changes its text.
C18_NoEditOnceClosed == [][isClosed => document' = document]_vars

\* C19: an updateDocument that finds the document closed reports the abort
\* through the error message channel (and applies no edit and does not throw).
C19_ClosedAbortReported == "logClosed" \in ui => "errorUpdate" \in ui

(* ------------------ two documents and passes that fail ---------------- *)
\* The second document, /w/C.py, is a python file beside the first one and
\* names no file "A.py" or "C.py": the scan of its lines is Scan.

SecondKey == "C"
DocumentKeys == {DocKey, SecondKey}

\* how a pass may fail: the document processor's promise rejects (as the
\* stub of the manager's test does), a statement of the scan outside the
\* per-directive try throws (an invalid configured pattern at line 91), or
\* the host rejects the first applyEdit
Faults == {"none", "reject", "scan", "apply"}

\* a manager.processDocument with no catch block
managerNoCatch(thrown) == [rejected |-> thrown, errors |-> 0]

\* the catch of manager.processDocument (virtual-include-manager.ts lines
\* 159-164): whether the call rejects and how many error messages it shows
managerCatch(thrown) == [rejected |-> FALSE, errors |-> IF thrown THEN 1 ELSE 0]

\* the source mapping after the scan of the document with the given key
TrackSourcesOf(key, mapping, scan) ==
    LET added == {At(scan, i).resolvedPath :
                      i \in {j \in 0..(Len(scan) - 1) : At(scan, j).kind = "include"}}
    IN  [p \in (DOMAIN mapping) \cup added |->
            (IF p \in DOMAIN mapping THEN mapping[p] ELSE {})
            \cup (IF p \in added THEN {key} ELSE {})]

\* updateDocument has an edit to await
AwaitsEdit(lines, scan) ==
    /\ \E i \in 1..Len(scan) : scan[i].needsEdit
    /\ Pending(lines, 0, DOMAIN IncludeMapOf(scan)) # {}

\* DocumentProcessor.processDocument under a fault: the document's lines
\* after it, whether the include map was replaced (line 73) and by what,
\* whether the sources of the scan were tracked (lines 122-131), whether the
\* processor failed, and the error messages of its catch blocks (lines
\* 242-245 and 584-588)
processDocumentUnder(fault, lines, scan) ==
    CASE fault = "reject" ->
            [document |-> lines, mapped |-> FALSE, includeMap |-> << >>, tracked |-> FALSE,
             failed |-> TRUE, errors |-> 0]
      [] fault = "scan" ->
            [document |-> lines, mapped |-> TRUE, includeMap |-> << >>, tracked |-> FALSE,
             failed |-> TRUE, errors |-> 1]
      [] fault = "apply" /\ AwaitsEdit(lines, scan) ->
            [document |-> lines, mapped |-> TRUE, includeMap |-> IncludeMapOf(scan),
             tracked |-> TRUE, failed |-> TRUE, errors |-> 1]
      [] OTHER ->
            [document |-> ApplyScan(lines, scan).document, mapped |-> TRUE,
             includeMap |-> IncludeMapOf(scan), tracked |-> TRUE,
             failed |-> ApplyScan(lines, scan).error,
             errors |-> IF ApplyScan(lines, scan).error THEN 1 ELSE 0]

LinesOf(key) == IF key = DocKey THEN document ELSE second

\* VirtualIncludeManager.processDocument on one of the two documents, run to
\* its end, under a fault
ProcessEither(key, fault) ==
    /\ Len(document) <= MaxDocLines
    /\ Len(second) <= MaxDocLines
    /\ \E scan \in {Scan(LinesOf(key), fs, platform)} :
         \E r \in {processDocumentUnder(fault, LinesOf(key), scan)} :
           \E m \in {managerCatch(fault = "reject")} :
             /\ document' = IF key = DocKey THEN r.document ELSE document
             /\ second' = IF key = SecondKey THEN r.document ELSE second
             /\ documentIncludes' =
                    IF r.mapped
                    THEN [k \in (DOMAIN documentIncludes) \cup {key} |->
                             IF k = key THEN r.includeMap ELSE documentIncludes[k]]
                    ELSE documentIncludes
             /\ sourceToDocuments' =
                    IF r.tracked THEN TrackSourcesOf(key, sourceToDocuments, scan)
                    ELSE sourceToDocuments
             /\ \E w \in {IF r.tracked
                           THEN RebuildWatchers(key, documentWatchers, watchers, scan)
                           ELSE IF r.mapped
                           THEN ClearWatchers(key, documentWatchers, watchers)
                           ELSE [documentWatchers |-> documentWatchers,
                                 watchers |-> watchers]} :
                    /\ documentWatchers' = w.documentWatchers
                    /\ watchers' = w.watchers
             /\ report' = [doc |-> key, fault |-> fault, failed |-> r.failed,
                           errors |-> r.errors + m.errors, rejected |-> m.rejected]
    /\ UNCHANGED <<platform, fs, pass, quiet, sourceChanges, userEdits, isPerformingUpdate,
                   isClosed, slots, timers, ui, change, started, resolution, disposables>>

\* a dispose that clears the maps and leaves the watchers as they are
disposeLeavingWatchers(stored, live, registered) ==
    [documentWatchers |-> << >>, watchers |-> live, documentIncludes |-> << >>,
     sourceToDocuments |-> << >>, disposables |-> {}]

\* VirtualIncludeManager.dispose (virtual-include-manager.ts lines 322-342):
\* every stored watcher disposed, the three maps cleared, every event
\* registration disposed
dispose(stored, live, registered) ==
    LET held == UNION {WatcherIds(stored[k]) : k \in DOMAIN stored}
    IN  [documentWatchers |-> << >>,
         watchers |-> [id \in (DOMAIN live) \ held |-> live[id]],
         documentIncludes |-> << >>,
         sourceToDocuments |-> << >>,
         disposables |-> {}]

\* the extension is deactivated and the host disposes the manager
\* (extension.ts lines 84-89)
Dispose ==
    /\ disposables # {}
    /\ \E d \in {dispose(documentWatchers, watchers, disposables)} :
          /\ documentWatchers' = d.documentWatchers
          /\ watchers' = d.watchers
          /\ documentIncludes' = d.documentIncludes
          /\ sourceToDocuments' = d.sourceToDocuments
          /\ disposables' = d.disposables
    /\ UNCHANGED <<platform, document, fs, pass, quiet, sourceChanges, userEdits,
                   isPerformingUpdate, isClosed, slots, timers, ui, change, started,
                   second, report, resolution>>

\* the documents the second editor may hold
SecondDocuments ==
    { <<IncludeB, Empty>>,
      <<IncludeD, TextLine>>,
      <<IncludeB, MarkerStartLine, <<"x">>, MarkerEndLine, Empty>> }

InitTwoDocuments ==
    /\ platform = "posix"
    /\ document \in HandlerDocuments
    /\ second \in SecondDocuments
    /\ fs \in [SourcePaths -> ContentsB \cup ContentsD \cup {Missing}]
    /\ fs[FileB] \in { << <<"x">> >>, << <<"x">>, Empty, <<"y">> >> }
    /\ fs[FileD] \in ContentsD \cup {Missing}
    /\ sourceToDocuments = << >>
    /\ documentIncludes = << >>
    /\ pass = NoPass
    /\ quiet = 0
    /\ sourceChanges = 0
    /\ userEdits = 0
    /\ isPerformingUpdate = FALSE
    /\ isClosed = FALSE
    /\ slots = [id \in SlotIds |-> Idle]
    /\ timers = {}
    /\ ui = {}
    /\ change = NoChange
    /\ started = 0
    /\ report = NoReport
    /\ resolution = NoResolution
    /\ disposables = EventHandlers
    /\ documentWatchers = << >>
    /\ watchers = << >>

NextTwoDocuments == \E key \in DocumentKeys : \E fault \in Faults : ProcessEither(key, fault)

SpecTwoDocuments == InitTwoDocuments /\ [][NextTwoDocuments]_vars

\* the two documents and the end of the manager's life; a timer armed before
\* the manager is disposed may still call processDocument after it
NextLifecycle ==
    \/ NextTwoDocuments
    \/ Dispose

SpecLifecycle == InitTwoDocuments /\ [][NextLifecycle]_vars

\* the other of the two documents
Other(key) == IF key = DocKey THEN SecondKey ELSE DocKey

\* what the manager holds for the document with the given key: its include
\* map and the sources it is recorded under
HeldFor(key, includes, mapping) ==
    [ includeMap |-> IF key \in DOMAIN includes THEN includes[key] ELSE << >>,
      sources |-> {p \in DOMAIN mapping : key \in mapping[p]} ]

C27_EditsAscending ==
    \A j \in 1..Len(pass.edits) : \A k \in 1..Len(pass.edits) :
        j < k => pass.edits[j].lineNumber < pass.edits[k].lineNumber

\* a pass has applied two edits or more
C27_TwoEditsApplied == Len(pass.edits) >= 2

\* the one edit of the last pass, when it applied exactly one and the document
\* is as the pass left it
OneEdit(kind) == quiet >= 1 /\ Len(pass.edits) = 1 /\ pass.edits[1].kind = kind

\* the lines a region of the content of directive line i holds between its
\* markers: the content behind the directive's indentation, nested directives
\* neutralized
RegionContent(i) ==
    _neutralizeNestedIncludes(
        IndentContent(IncludeMap[i], Indentation(At(pass.before, i))),
        getLanguageSettings(DocLanguage))

\* C28: a pass whose one edit is for a directive followed by a region with its
\* end marker replaces the lines from the start marker through the end marker
\* by a start marker, the indented and neutralized content and an end marker,
\* every other line staying; and the running offset the edit adds is the
\* change of the document's line count.
C28_ReplaceIsExact ==
    (OneEdit("replace") /\ Cardinality(Ends(pass.before)) = 1)
    => LET i == pass.edits[1].lineNumber
           a == pass.edits[1].at
           e == FirstEnd(pass.before, a + 1)
           C == RegionContent(i)
           n == Len(C)
       IN  /\ Len(document) = a + n + 2 + (Len(pass.before) - (e + 1))
           /\ Slice(document, 0, a) = Slice(pass.before, 0, a)
           /\ IsStart(At(document, a))
           /\ Slice(document, a + 1, a + 1 + n) = C
           /\ IsEnd(At(document, a + 1 + n))
           /\ Slice(document, a + n + 2, Len(document))
                  = Slice(pass.before, e + 1, Len(pass.before))
           /\ OffsetAfterReplace(0, <<At(document, a)>> \o C \o <<At(document, a + 1 + n), << >> >>,
                                 e + 1 - a)
                  = Len(document) - Len(pass.before)

\* the first edit of the last pass repaired a region with no end marker, and
\* the document is as the pass left it
RepairedFirst == quiet >= 1 /\ Len(pass.edits) >= 1 /\ pass.edits[1].kind = "repair"

\* C29: a pass over a directive whose next line is a start marker with no end
\* marker after it replaces a span from the start marker on that holds no later
\* line the scanner takes for a directive (each such line is still in the
\* document after the pass), and, the repair being the one edit of the pass,
\* leaves the directive followed by a start marker, the content of its source
\* and an end marker.
C29_RepairSparesLaterDirectives ==
    RepairedFirst
    => LET i == pass.edits[1].lineNumber
           a == pass.edits[1].at
           C == RegionContent(i)
           n == Len(C)
       IN  /\ \A k \in (a + 1)..(Len(pass.before) - 1) :
                  IsLive(At(pass.before, k))
                  => \E m \in 0..(Len(document) - 1) : At(document, m) = At(pass.before, k)
           /\ Len(pass.edits) = 1
              => /\ Len(document) >= a + n + 2
                 /\ At(document, i) = At(pass.before, i)
                 /\ IsStart(At(document, a))
                 /\ Slice(document, a + 1, a + 1 + n) = C
                 /\ IsEnd(At(document, a + 1 + n))

\* directive line i of the scanned text has a complete region holding the
\* content of its source
Fresh(i) ==
    /\ i + 2 < Len(pass.before)
    /\ IsStart(At(pass.before, i + 1))
    /\ FirstEnd(pass.before, i + 2) # -1
    /\ Slice(pass.before, i + 2, FirstEnd(pass.before, i + 2)) = RegionContent(i)

\* C30: a directive whose region is complete and equal to the content of its
\* source (a content with no directive and no marker line) receives no edit in
\* a pass, whatever the other directives need
C30_FreshDirectiveNotEdited ==
    \A i \in Accepted :
        (Fresh(i) /\ PlainContent(IncludeMap[i])) => \A k \in 1..Len(pass.edits) : pass.edits[k].lineNumber # i

(* ---------------------- properties of the watchers -------------------- *)

\* the watchers stored for a document, and the directives its last scan accepted
StoredFor(key) == IF key \in DOMAIN documentWatchers THEN documentWatchers[key] ELSE << >>
AcceptedOf(key) == IF key \in DOMAIN documentIncludes THEN DOMAIN documentIncludes[key] ELSE {}

Held == UNION {WatcherIds(documentWatchers[k]) : k \in DOMAIN documentWatchers}

\* C25: the step that disposes the manager leaves every watcher that was held
\* in documentWatchers disposed, the maps documentIncludes, documentWatchers
\* and sourceToDocuments empty, and no event registration undisposed
C25_DisposeClearsAll ==
    [][(disposables # {} /\ disposables' = {})
       => /\ \A id \in Held : id \notin DOMAIN watchers'
          /\ DOMAIN documentIncludes' = {}
          /\ DOMAIN documentWatchers' = {}
          /\ DOMAIN sourceToDocuments' = {}
          /\ disposables' = {}]_vars

\* the manager was disposed after passes over both documents that had left
\* watchers, and nothing has run since
C25_DisposedAfterPasses ==
    /\ disposables = {}
    /\ DOMAIN documentIncludes = {}
    /\ DOMAIN watchers = {}
    /\ Cardinality(Starts(document)) = 2
    /\ report.doc = DocKey
    /\ ~report.failed
    /\ Len(second) >= 2 /\ At(second, 0) = IncludeD /\ IsStart(At(second, 1))

(* ---------------- LanguageService under a configuration --------------- *)
\* A configuration is the settings of the extension: defaultCommentStyle,
\* detectFromExtension and languageOverrides (languageSettings is left at its
\* default, no entry).  A pattern of a section override is given by name and
\* tested by RegExpTest.

DASHES == "--"

\* COMMENT_STYLES (lines 176-197), for the languages used here
COMMENT_STYLES ==
    [l \in {"javascript", "python", "lua", "yaml", "html"} |->
        CASE l = "javascript" -> [start |-> <<SLASHES>>, end |-> << >>]
          [] l \in {"python", "yaml"} -> [start |-> <<HASH>>, end |-> << >>]
          [] l = "lua" -> [start |-> <<DASHES>>, end |-> << >>]
          [] l = "html" -> [start |-> <<"<!--">>, end |-> <<"-->">>]]

\* getCommentStyle (lines 206-212)
getCommentStyleUnder(config, languageId) ==
    IF languageId \in DOMAIN COMMENT_STYLES THEN COMMENT_STYLES[languageId]
    ELSE [start |-> config.defaultCommentStyle, end |-> << >>]

\* getLanguageSettings (lines 438-457)
getLanguageSettingsUnder(config, languageId) ==
    createDefaultSettings(getCommentStyleUnder(config, languageId))

\* getLanguageFromExtension (lines 263-281)
getLanguageFromExtensionUnder(config, filePath) ==
    IF ~config.detectFromExtension THEN "none" ELSE getLanguageFromExtension(filePath)

\* new RegExp(pattern).test(line) for the patterns
\*   "template"  template:\s*>-        "nonspace"   ^\S
\*   "script"    <script[^>]*>\s*      "endscript"  </script>
RegExpTest(pattern, line) ==
    CASE pattern = "template" ->
            \E i \in 0..(Len(line) - 1) :
                /\ At(line, i) = "template:"
                /\ HasAt(line, SkipSpaces(line, i + 1), <<">-">>)
      [] pattern = "script" ->
            \E i \in 0..(Len(line) - 1) :
                /\ At(line, i) = "<script"
                /\ \E j \in (i + 1)..(Len(line) - 1) : At(line, j) = ">"
      [] pattern = "nonspace" -> Len(line) > 0 /\ ~IsSpace(line[1])
      [] pattern = "endscript" -> \E i \in 1..Len(line) : line[i] = "</script>"
      [] OTHER -> FALSE

\* BUILT_IN_SECTION_OVERRIDES (lines 304-324)
BUILT_IN_SECTION_OVERRIDES ==
    << [fileType |-> "html", pattern |-> "script", commentStyle |-> <<SLASHES>>,
        continueUntil |-> "endscript"],
       [fileType |-> "yaml", pattern |-> "template", commentStyle |-> <<DASHES>>,
        continueUntil |-> "nonspace"] >>

NoSection == [found |-> FALSE, commentStyle |-> << >>]

\* the backward loop going on to an earlier section when the nearest is closed
RECURSIVE SectionFromEarlier(_, _, _, _)
SectionFromEarlier(relevantOverrides, lines, lineNumber, i) ==
    IF i < 0 THEN NoSection
    ELSE LET hits == {k \in 1..Len(relevantOverrides) :
                         RegExpTest(relevantOverrides[k].pattern, At(lines, i))}
         IN  IF hits = {} THEN SectionFromEarlier(relevantOverrides, lines, lineNumber, i - 1)
             ELSE LET override == relevantOverrides[CHOOSE k \in hits : \A m \in hits : k <= m]
                  IN  IF \E j \in (i + 1)..lineNumber :
                             RegExpTest(override.continueUntil, At(lines, j))
                      THEN SectionFromEarlier(relevantOverrides, lines, lineNumber, i - 1)
                      ELSE [found |-> TRUE, commentStyle |-> override.commentStyle]

\* the backward loop of getSectionOverride (lines 356-378), from line i
RECURSIVE SectionFrom(_, _, _, _)
SectionFrom(relevantOverrides, lines, lineNumber, i) ==
    IF i < 0 THEN NoSection
    ELSE LET hits == {k \in 1..Len(relevantOverrides) :
                         RegExpTest(relevantOverrides[k].pattern, At(lines, i))}
         IN  IF hits = {} THEN SectionFrom(relevantOverrides, lines, lineNumber, i - 1)
             ELSE LET override == relevantOverrides[CHOOSE k \in hits : \A m \in hits : k <= m]
                  IN  IF \E j \in (i + 1)..lineNumber :
                             RegExpTest(override.continueUntil, At(lines, j))
                      THEN NoSection
                      ELSE [found |-> TRUE, commentStyle |-> override.commentStyle]

\* getSectionOverride (lines 326-379)
getSectionOverride(config, languageId, lines, lineNumber) ==
    LET overrides == BUILT_IN_SECTION_OVERRIDES \o config.languageOverrides
        relevantOverrides == SelectSeq(overrides, LAMBDA o : o.fileType = languageId)
    IN  IF relevantOverrides = << >> THEN NoSection
        ELSE SectionFrom(relevantOverrides, lines, lineNumber, lineNumber)

\* getContextAwareSettings with its first two steps in the other order
getContextAwareSettingsSectionFirst(config, context) ==
    LET sectionOverride == getSectionOverride(config, context.languageId, context.lines,
                                              context.lineNumber)
    IN  IF sectionOverride.found
        THEN createDefaultSettings([start |-> sectionOverride.commentStyle, end |-> << >>])
        ELSE IF MatchOverride(context.line).ok
        THEN createDefaultSettings([start |-> MatchOverride(context.line).style, end |-> << >>])
        ELSE getLanguageSettingsUnder(config, context.languageId)

\* getContextAwareSettings (lines 389-427) under a configuration, for the
\* context of a line of a document
getContextAwareSettingsUnder(config, context) ==
    LET commentStyleOverride == MatchOverride(context.line)
        sectionOverride == getSectionOverride(config, context.languageId, context.lines,
                                              context.lineNumber)
        detectedLanguage == getLanguageFromExtensionUnder(config, context.includedFilePath)
    IN  IF commentStyleOverride.ok
        THEN createDefaultSettings([start |-> commentStyleOverride.style, end |-> << >>])
        ELSE IF sectionOverride.found
        THEN createDefaultSettings([start |-> sectionOverride.commentStyle, end |-> << >>])
        ELSE IF context.includedFilePath # << >> /\ detectedLanguage # "none"
        THEN getLanguageSettingsUnder(config, detectedLanguage)
        ELSE getLanguageSettingsUnder(config, context.languageId)

\* the lines of the documents whose rules are resolved
TemplateLine == <<SP, "template:", SP, ">-">>
KeyLine == <<"kind:", SP, "v">>
ScriptLine == <<"<script", ">">>
EndScriptLine == <<"</script>">>
IncludeLua == <<SP, SP>> \o Directive(<<DASHES>>, <<SP>>, <<"x.lua">>)
IncludeLuaTemplate == <<SP, SP>> \o Directive(<<"{#">>, <<SP>>, <<"x.lua">>) \o <<SP, "#}">>
IncludeDSlashes == <<SP>> \o Directive(<<SLASHES>>, <<SP>>, <<"d.js">>)
IncludeWithInSection == <<SP, SP>> \o IncludeDWith

LanguageDocuments ==
    { <<TemplateLine, IncludeLua, KeyLine, IncludeB>>,
      <<TemplateLine, IncludeLuaTemplate>>,
      <<ScriptLine, IncludeDSlashes, EndScriptLine, IncludeDSlashes>>,
      <<TemplateLine, IncludeWithInSection>>,
      <<ScriptLine, TemplateLine, KeyLine, IncludeB>>,
      <<IncludeB>> }

\* the configured section overrides: that of the test of lua-resty-template
\* in a YAML template section, one for python documents, and one that gives
\* YAML documents a second kind of section
UserOverrides ==
    { << >>,
      << [fileType |-> "yaml", pattern |-> "template", commentStyle |-> <<"{#">>,
          commentEnd |-> <<"#}">>, continueUntil |-> "nonspace"] >>,
      << [fileType |-> "python", pattern |-> "template", commentStyle |-> <<DASHES>>,
          commentEnd |-> << >>, continueUntil |-> "nonspace"] >>,
      << [fileType |-> "yaml", pattern |-> "script", commentStyle |-> <<SLASHES>>,
          commentEnd |-> << >>, continueUntil |-> "endscript"] >> }

Configurations ==
    [ defaultCommentStyle : {<<HASH>>, <<";">>},
      detectFromExtension : BOOLEAN,
      languageOverrides : UserOverrides ]

Contexts ==
    UNION { { [languageId |-> l, lines |-> d, lineNumber |-> n, line |-> At(d, n),
               includedFilePath |-> f] :
                  l \in {"python", "yaml", "html", "plaintext"},
                  n \in 0..(Len(d) - 1),
                  f \in {<< >>, FileD, FileB} } : d \in LanguageDocuments }

\* a line of a document is about to have its rules resolved
InitLanguage ==
    /\ resolution \in [context : Contexts, config : Configurations, settings : {<< >>}]
    /\ disposables = EventHandlers
    /\ documentWatchers = << >>
    /\ watchers = << >>
    /\ second = << << >> >>
    /\ report = NoReport
    /\ isPerformingUpdate = FALSE
    /\ isClosed = FALSE
    /\ slots = [id \in SlotIds |-> Idle]
    /\ timers = {}
    /\ ui = {}
    /\ change = NoChange
    /\ started = 0
    /\ platform = "posix"
    /\ document = <<Empty>>
    /\ fs = HandlerFiles
    /\ sourceToDocuments = << >>
    /\ documentIncludes = << >>
    /\ pass = NoPass
    /\ quiet = 0
    /\ sourceChanges = 0
    /\ userEdits = 0

\* LanguageService.getContextAwareSettings is called for the line
Resolve ==
    /\ resolution.settings = << >>
    /\ resolution' = [resolution EXCEPT
                         !.settings = getContextAwareSettingsUnder(resolution.config,
                                                                   resolution.context)]
    /\ UNCHANGED <<platform, document, fs, sourceToDocuments, documentIncludes, pass, quiet,
                   sourceChanges, userEdits, isPerformingUpdate, isClosed, slots, timers,
                   ui, change, started, second, report, disposables, documentWatchers,
                   watchers>>

NextLanguage == Resolve

SpecLanguage == InitLanguage /\ [][NextLanguage]_vars

(* -------------------- properties of the language rules ---------------- *)

\* the sources of the rules of a line, in the order of their precedence, each
\* with whether it applies and the rules it gives
RuleSources(config, context) ==
    LET section == getSectionOverride(config, context.languageId, context.lines,
                                      context.lineNumber)
        detected == getLanguageFromExtension(context.includedFilePath)
    IN  << [applies |-> MatchOverride(context.line).ok,
            rules |-> createDefaultSettings([start |-> MatchOverride(context.line).style,
                                             end |-> << >>])],
           [applies |-> section.found,
            rules |-> createDefaultSettings([start |-> section.commentStyle,
                                             end |-> << >>])],
           [applies |-> /\ config.detectFromExtension
                        /\ context.includedFilePath # << >>
                        /\ detected \in DOMAIN COMMENT_STYLES,
            rules |-> IF detected \in DOMAIN COMMENT_STYLES
                      THEN createDefaultSettings(COMMENT_STYLES[detected])
                      ELSE << >>],
           [applies |-> context.languageId \in DOMAIN COMMENT_STYLES,
            rules |-> IF context.languageId \in DOMAIN COMMENT_STYLES
                      THEN createDefaultSettings(COMMENT_STYLES[context.languageId])
                      ELSE << >>],
           [applies |-> TRUE,
            rules |-> createDefaultSettings([start |-> config.defaultCommentStyle,
                                             end |-> << >>])] >>

FirstApplicable(sources) ==
    sources[CHOOSE k \in 1..Len(sources) :
                sources[k].applies /\ \A m \in 1..(k - 1) : ~sources[m].applies]

\* C23: the rules resolved for a line are those of the first source that
\* applies, in the order: inline "with" override, section override, language
\* detected from the included file's extension (detection enabled and the path
\* known), the document's language, the configured default comment style.
C23_RulePrecedence ==
    resolution.settings # << >>
    => resolution.settings
           = FirstApplicable(RuleSources(resolution.config, resolution.context)).rules

\* the rules were resolved for a line with an inline override inside a section
\* of a YAML document, the included file's path being known
C23_InlineInsideSection ==
    /\ resolution.settings # << >>
    /\ resolution.context.languageId = "yaml"
    /\ resolution.context.line = IncludeWithInSection
    /\ resolution.context.includedFilePath = FileD
    /\ resolution.config.detectFromExtension
    /\ resolution.settings.commentStart = <<SLASHES>>

\* the configured section overrides of the document's language in whose
\* section the line stands
UserSections(config, context) ==
    {k \in 1..Len(config.languageOverrides) :
        LET o == config.languageOverrides[k]
        IN  /\ o.fileType = context.languageId
            /\ \E i \in 0..context.lineNumber :
                  /\ RegExpTest(o.pattern, At(context.lines, i))
                  /\ \A j \in (i + 1)..context.lineNumber :
                         ~RegExpTest(o.continueUntil, At(context.lines, j))}

\* C24: for a directive written with the comment start T of a configured
\* section override, inside a section of that override and with no inline
\* override, the rules resolved are those of T with the configured comment
\* end E as closer of the markers.
C24_UserSectionOverrideUsed ==
    resolution.settings # << >>
    => \A k \in UserSections(resolution.config, resolution.context) :
           LET o == resolution.config.languageOverrides[k]
           IN  (/\ ~MatchOverride(resolution.context.line).ok
                /\ MatchInclude(resolution.context.line,
                                [commentStart |-> o.commentStyle]).ok)
               => resolution.settings
                      = createDefaultSettings([start |-> o.commentStyle,
                                               end |-> o.commentEnd])

(* --------------- source changes and the document's auto-save ---------- *)
\* One document whose file is on the disk of the model (fs[DocPath]), its
\* region current and its watcher created by the pass that ran when it was
\* opened; its source file is then written more than once.

MaxWrites == 2
MaxRuns == 4

\* the document as saved, and the texts its editor may hold: the saved one, or
\* one with a line the user typed and did not save
SavedDocument == <<IncludeB, MarkerStartLine, <<"x">>, MarkerEndLine, Empty>>
EditorTexts == {SavedDocument, <<IncludeB, MarkerStartLine, <<"x">>, MarkerEndLine, TextLine>>}

\* what a writer leaves in a source file
WrittenContents == { << <<"y">> >>, << <<"x">> >> }

\* the scan of preventProtectedEdits with an end marker that closes nothing
RECURSIVE OpenRegionFromIgnoringEnd(_, _, _)
OpenRegionFromIgnoringEnd(lines, i, protectedStart) ==
    IF i >= Len(lines) THEN protectedStart
    ELSE IF Trim(At(lines, i)) = Trim(MarkerStartLine)
    THEN OpenRegionFromIgnoringEnd(lines, i + 1, i)
    ELSE OpenRegionFromIgnoringEnd(lines, i + 1, protectedStart)

\* the start marker of the region still open at the end of the lines, or -1
\* (edit-protection.ts lines 154-167)
RECURSIVE OpenRegionFrom(_, _, _)
OpenRegionFrom(lines, i, protectedStart) ==
    IF i >= Len(lines) THEN protectedStart
    ELSE IF Trim(At(lines, i)) = Trim(MarkerStartLine)
    THEN OpenRegionFrom(lines, i + 1, i)
    ELSE IF Trim(At(lines, i)) = Trim(MarkerEndLine)
    THEN OpenRegionFrom(lines, i + 1, -1)
    ELSE OpenRegionFrom(lines, i + 1, protectedStart)

\* the edits EditProtection.preventProtectedEdits returns (edit-protection.ts
\* lines 146-184): TextEdit.insert(new Position(lines.length, 0), "\n" +
\* indentation + end marker + "\n") when the last region has no end marker
ProtectedEdits(lines) ==
    LET protectedStart == OpenRegionFrom(lines, 0, -1)
    IN  IF protectedStart # -1
        THEN << [line |-> Len(lines), character |-> 0,
                 newText |-> << << >>,
                                Indentation(At(lines, protectedStart)) \o MarkerEndLine,
                                << >> >>] >>
        ELSE << >>

\* the inserts of a will-save listener applied to the document by the save
RECURSIVE ApplyInserts(_, _)
ApplyInserts(lines, edits) ==
    IF edits = << >> THEN lines
    ELSE ApplyInserts(applyEdit(lines, Head(edits).line, Head(edits).character,
                                Head(edits).line, Head(edits).character,
                                Head(edits).newText),
                      Tail(edits))

\* onWillSaveTextDocument: waitUntil(preventProtectedEdits(document))
\* (virtual-include-manager.ts lines 255-258): an end marker is appended to a
\* document whose last region has none
preventProtectedEdits(lines) == ApplyInserts(lines, ProtectedEdits(lines))

InitSaved ==
    /\ platform = "posix"
    /\ document \in EditorTexts
    /\ fs = [p \in SourcePaths \cup {DocPath} |->
                IF p = DocPath THEN SavedDocument ELSE HandlerFiles[p]]
    /\ \E scan \in {Scan(document, fs, platform)} :
         \E w \in {RebuildWatchers(DocKey, << >>, << >>, scan)} :
           /\ sourceToDocuments = TrackSources(<< >>, scan)
           /\ documentIncludes = (DocKey :> IncludeMapOf(scan))
           /\ documentWatchers = w.documentWatchers
           /\ watchers = w.watchers
    /\ pass = NoPass
    /\ quiet = 0
    /\ sourceChanges = 0
    /\ userEdits = 0
    /\ second = << << >> >>
    /\ report = NoReport
    /\ isPerformingUpdate = FALSE
    /\ isClosed = FALSE
    /\ slots = [id \in SlotIds |-> Idle]
    /\ timers = {}
    /\ ui = {}
    /\ change = NoChange
    /\ started = 0
    /\ resolution = NoResolution
    /\ disposables = EventHandlers

\* the 300 ms of handleSourceFileChange are over (file-watcher lines 155-183):
\* a document still dirty is saved, the will-save edits applied first, and
\* its save event is raised; then the notification and the finally
AutoSave(id) ==
    /\ slots[id].stage = "sleeping"
    /\ IF IsDirty(document, fs)
       THEN \E saved \in {preventProtectedEdits(document)} :
               /\ document' = saved
               /\ fs' = [fs EXCEPT ![DocPath] = saved]
               /\ timers' = timers \cup {"saved"}
       ELSE UNCHANGED <<document, fs, timers>>
    /\ slots' = [slots EXCEPT ![id] = Idle]
    /\ isPerformingUpdate' = FALSE
    /\ ui' = {"notifyAffected"}
    /\ change' = NoChange
    /\ UNCHANGED <<resolution, disposables, documentWatchers, watchers,
                   second, report, platform, sourceToDocuments, documentIncludes,
                   pass, quiet, sourceChanges, userEdits, isClosed, started>>

\* onDocumentSave runs for the save event (virtual-include-manager.ts lines
\* 190-199): a pass on the visible editor, with no auto-save after it
DocumentSaved(id) ==
    /\ "saved" \in timers
    /\ ~isClosed
    /\ FreeSlot(id)
    /\ started < MaxRuns
    /\ StartPass(id, "trigger", isPerformingUpdate)
    /\ timers' = timers \ {"saved"}
    /\ started' = started + 1
    /\ UNCHANGED sourceChanges

NextSaved ==
    \/ \E id \in SlotIds : \E p \in SourcePaths : \E c \in WrittenContents :
          SourceFileChangedWithin(MaxWrites, MaxRuns, id, p, c)
    \/ \E id \in SlotIds : WatcherOpened(id)
    \/ \E id \in SlotIds : WatcherDone(id)
    \/ \E id \in SlotIds : AutoSave(id)
    \/ \E id \in SlotIds : DocumentSaved(id)
    \/ \E id \in SlotIds : \E onDirective \in BOOLEAN : LandEdit(id, onDirective)
    \/ \E id \in SlotIds : TypingTimerFiresWithin(MaxRuns, id)

SpecSaved == InitSaved /\ [][NextSaved]_vars

(* ------------------- properties of the source changes ----------------- *)

\* no pass, handler or timer is left
AtRest == InFlight = {} /\ timers = {}

\* the lines between the start marker under the first line and the first end
\* marker after it
RegionOfFirst(lines) ==
    IF Len(lines) >= 2 /\ IsStart(At(lines, 1)) /\ FirstEnd(lines, 2) # -1
    THEN JoinLines(Slice(lines, 2, FirstEnd(lines, 2)))
    ELSE << <<"(no region)">> >>

\* C21: when the source file has been written, once or more, and every pass,
\* handler and timer the writes set off has ended, the region of the visible
\* document holds the file's last content.
C21_LastWriteWins ==
    (AtRest /\ sourceChanges >= 1 /\ ~isClosed)
    => RegionOfFirst(document) = fs[FileB]

(* ---------------- documents that are each other's source -------------- *)
\* Two python documents, /w/A.py and /w/C.py, both in visible editors and
\* both on the disk of the model; each may include the other's file.  No
\* source file is included by both, so that handleSourceFileChange has one
\* document to update.  A handler runs to its next timer: the edits of its
\* pass land before any other callback runs, and the cursor is on no
\* directive line, so that the change events of the edits arm no timer.
\* Here timers holds the callbacks the host has yet to run, and started
\* counts the callbacks run since the last event from outside; an event from
\* outside comes when the callbacks of the one before have all run.

MaxChain == 8

SecondPath == <<SEP, "w", SEP, "C.py">>
PathOf(key) == IF key = DocKey THEN DocPath ELSE SecondPath

IncludeA == Directive(<<HASH>>, <<SP>>, <<"A.py">>)
IncludeC == Directive(<<HASH>>, <<SP>>, <<"C.py">>)

\* the texts the two documents are saved with
FirstTexts == { <<IncludeC, Empty>>, <<IncludeB, Empty>> }
SecondTexts == { <<IncludeA, Empty>>, <<IncludeD, Empty>>, <<TextLine>> }

\* document.isDirty of either document
IsDirtyOf(key, lines, disk) == lines # disk[PathOf(key)]

\* some watcher not disposed watches the path
Watched(live, p) == \E id \in DOMAIN live : live[id] = p

InitMutual ==
    /\ platform = "posix"
    /\ document \in FirstTexts
    /\ second \in SecondTexts
    /\ fs = [p \in SourcePaths \cup {DocPath, SecondPath} |->
                IF p = DocPath THEN document
                ELSE IF p = SecondPath THEN second
                ELSE HandlerFiles[p]]
    /\ sourceToDocuments = << >>
    /\ documentIncludes = << >>
    /\ documentWatchers = << >>
    /\ watchers = << >>
    /\ pass = NoPass
    /\ quiet = 0
    /\ sourceChanges = 0
    /\ userEdits = 0
    /\ report = NoReport
    /\ isPerformingUpdate = FALSE
    /\ isClosed = FALSE
    /\ slots = [id \in SlotIds |-> Idle]
    /\ timers = {}
    /\ ui = {}
    /\ change = NoChange
    /\ started = 0
    /\ resolution = NoResolution
    /\ disposables = EventHandlers

\* a handler that saves whatever document its pass leaves dirty
SavesWhateverIsDirty(handler, wasDirty, isDirty) == handler # "didSave" /\ isDirty

\* the handler arms a save after its pass: processDocumentWithoutDirtyState
\* (virtual-include-manager.ts lines 111-117) and handleSourceFileChange
\* (file-watcher lines 136-142) do when the document was not dirty before the
\* pass and is dirty after it, onDocumentSave never does
SavesAfterPass(handler, wasDirty, isDirty) == handler # "didSave" /\ ~wasDirty /\ isDirty

\* a callback of the given kind runs manager.processDocument on the document
\* of the key, to its end.  A handler that keeps the document's saved state
\* arms the timer of a save when the pass made a saved document dirty: the
\* 100 ms one of processDocumentWithoutDirtyState (virtual-include-manager.ts
\* lines 108-131) or the 300 ms one of handleSourceFileChange (file-watcher
\* lines 136-160), which keeps the flag up until its save.  rest holds the
\* callbacks still to run.
RunPass(key, handler, rest) ==
    \E scan \in {ScanOf(PathOf(key), LinesOf(key), fs, platform)} :
      \E w \in {RebuildWatchers(key, documentWatchers, watchers, scan)} :
        \E after \in {ApplyScan(LinesOf(key), scan).document} :
          \E save \in {SavesAfterPass(handler, IsDirtyOf(key, LinesOf(key), fs),
                                      IsDirtyOf(key, after, fs))} :
            /\ document' = IF key = DocKey THEN after ELSE document
            /\ second' = IF key = SecondKey THEN after ELSE second
            /\ documentIncludes' =
                   [k \in (DOMAIN documentIncludes) \cup {key} |->
                       IF k = key THEN IncludeMapOf(scan) ELSE documentIncludes[k]]
            /\ sourceToDocuments' = TrackSourcesOf(key, sourceToDocuments, scan)
            /\ documentWatchers' = w.documentWatchers
            /\ watchers' = w.watchers
            /\ timers' = rest \cup
                   (IF save
                    THEN {<<IF handler = "changed" THEN "save300" ELSE "save100", key>>}
                    ELSE {})
            /\ isPerformingUpdate' = IF handler = "changed" THEN save
                                      ELSE isPerformingUpdate

\* the document is shown: onDocumentOpen or onActiveEditorChange calls
\* processDocumentWithoutDirtyState (virtual-include-manager.ts lines
\* 108-131, 178-187, 249-253)
OpenEditor(key) ==
    /\ timers = {}
    /\ key \notin DOMAIN documentIncludes
    /\ RunPass(key, "open", timers)
    /\ started' = 0
    /\ UNCHANGED <<platform, fs, pass, quiet, sourceChanges, userEdits, isClosed, slots,
                   ui, change, report, resolution, disposables>>

\* a program writes a source file that is no document, and the watchers of
\* its path raise their event
SourceWritten(p, c) ==
    /\ timers = {}
    /\ sourceChanges < MaxSourceChanges
    /\ c # fs[p]
    /\ fs' = [fs EXCEPT ![p] = c]
    /\ sourceChanges' = sourceChanges + 1
    /\ timers' = timers \cup (IF Watched(watchers, p) THEN {<<"changed", p>>} ELSE {})
    /\ started' = 0
    /\ UNCHANGED <<platform, document, second, sourceToDocuments, documentIncludes,
                   documentWatchers, watchers, pass, quiet, userEdits, isPerformingUpdate,
                   isClosed, slots, ui, change, report, resolution, disposables>>

\* a timer of a save fires: the 100 ms one of processDocumentWithoutDirtyState
\* (virtual-include-manager.ts lines 119-125) or the 300 ms one of
\* handleSourceFileChange, which saves a document still dirty and then resets
\* the flag (file-watcher lines 155-183).  A save writes the document's file
\* after the will-save edits, raises the save event and the event of the
\* watchers of the file; the save of a document with no change writes nothing.
SaveTimerFires(kind, key) ==
    /\ <<kind, key>> \in timers
    /\ started < MaxChain
    /\ started' = started + 1
    /\ IF IsDirtyOf(key, LinesOf(key), fs)
       THEN \E saved \in {preventProtectedEdits(LinesOf(key))} :
               /\ document' = IF key = DocKey THEN saved ELSE document
               /\ second' = IF key = SecondKey THEN saved ELSE second
               /\ fs' = [fs EXCEPT ![PathOf(key)] = saved]
               /\ timers' = (timers \ {<<kind, key>>}) \cup {<<"didSave", key>>}
                            \cup (IF Watched(watchers, PathOf(key))
                                  THEN {<<"changed", PathOf(key)>>} ELSE {})
       ELSE /\ timers' = timers \ {<<kind, key>>}
            /\ UNCHANGED <<document, second, fs>>
    /\ isPerformingUpdate' = IF kind = "save300" THEN FALSE ELSE isPerformingUpdate
    /\ UNCHANGED <<platform, sourceToDocuments, documentIncludes, documentWatchers,
                   watchers, pass, quiet, sourceChanges, userEdits, isClosed, slots, ui,
                   change, report, resolution, disposables>>

\* onDocumentSave runs for the save event of the document (virtual-include-
\* manager.ts lines 190-199): a pass, and no save after it
SaveEventFires(key) ==
    /\ <<"didSave", key>> \in timers
    /\ started < MaxChain
    /\ started' = started + 1
    /\ RunPass(key, "didSave", timers \ {<<"didSave", key>>})
    /\ UNCHANGED <<platform, fs, pass, quiet, sourceChanges, userEdits, isClosed, slots,
                   ui, change, report, resolution, disposables>>

\* the documents handleSourceFileChange updates for the path
Affected(p) == IF p \in DOMAIN sourceToDocuments THEN sourceToDocuments[p] ELSE {}

\* the event of a watcher is delivered and handleSourceFileChange runs
\* (file-watcher lines 80-85, 111-185): with a document to update it sets the
\* flag and runs the pass, then waits for its save or resets the flag
WatcherEventFires(p) ==
    /\ <<"changed", p>> \in timers
    /\ started < MaxChain
    /\ started' = started + 1
    /\ Cardinality(Affected(p)) <= 1
    /\ IF Affected(p) = {}
       THEN /\ timers' = timers \ {<<"changed", p>>}
            /\ UNCHANGED <<document, second, documentIncludes, sourceToDocuments,
                           documentWatchers, watchers, isPerformingUpdate>>
       ELSE \E key \in Affected(p) : RunPass(key, "changed", timers \ {<<"changed", p>>})
    /\ UNCHANGED <<platform, fs, pass, quiet, sourceChanges, userEdits, isClosed, slots,
                   ui, change, report, resolution, disposables>>

NextMutual ==
    \/ \E key \in DocumentKeys : OpenEditor(key)
    \/ \E p \in SourcePaths : \E c \in WrittenContents : SourceWritten(p, c)
    \/ \E kind \in {"save100", "save300"} : \E key \in DocumentKeys :
          SaveTimerFires(kind, key)
    \/ \E key \in DocumentKeys : SaveEventFires(key)
    \/ \E p \in DOMAIN fs : WatcherEventFires(p)

SpecMutual == InitMutual /\ [][NextMutual]_vars

(* ---------------------- properties of the chain ----------------------- *)

RelevantOverrides(config, languageId) ==
    SelectSeq(BUILT_IN_SECTION_OVERRIDES \o config.languageOverrides,
              LAMBDA o : o.fileType = languageId)

\* the overrides whose start pattern line i matches
StartingAt(relevantOverrides, lines, i) ==
    {k \in 1..Len(relevantOverrides) : RegExpTest(relevantOverrides[k].pattern, At(lines, i))}

\* the section of line n as the nearest start at or before n decides it: the
\* override of that start, unless a line after the start up to n matches the
\* override's end pattern
NearestSection(relevantOverrides, lines, n) ==
    LET starts == {i \in 0..n : StartingAt(relevantOverrides, lines, i) # {}}
    IN  IF starts = {} THEN NoSection
        ELSE LET s == CHOOSE i \in starts : \A m \in starts : m <= i
                 override == relevantOverrides[Least(StartingAt(relevantOverrides, lines, s))]
             IN  IF \E j \in (s + 1)..n : RegExpTest(override.continueUntil, At(lines, j))
                 THEN NoSection
                 ELSE [found |-> TRUE, commentStyle |-> override.commentStyle]

\* C32: the section override of a line is decided by the nearest line at or
\* before it that matches a section-start pattern of the document's language:
\* the override applies iff no line after that start up to and including the
\* line matches its end pattern; when the nearest section is closed no
\* override applies, an earlier section is not used, and the rules are those
\* of the included file's or the document's language
C32_NearestSectionDecides ==
    (resolution.settings # << >> /\ ~MatchOverride(resolution.context.line).ok)
    => LET config == resolution.config
           context == resolution.context
           section == NearestSection(RelevantOverrides(config, context.languageId),
                                     context.lines, context.lineNumber)
           detectedLanguage == getLanguageFromExtensionUnder(config, context.includedFilePath)
       IN  resolution.settings =
               IF section.found
               THEN createDefaultSettings([start |-> section.commentStyle, end |-> << >>])
               ELSE IF context.includedFilePath # << >> /\ detectedLanguage # "none"
               THEN getLanguageSettingsUnder(config, detectedLanguage)
               ELSE getLanguageSettingsUnder(config, context.languageId)

\* the rules of a line below a closed template section were resolved in a
\* YAML document that has an earlier script section still open
C32_ClosedBelowOpen ==
    /\ resolution.settings # << >>
    /\ resolution.context.languageId = "yaml"
    /\ resolution.context.lines = <<ScriptLine, TemplateLine, KeyLine, IncludeB>>
    /\ resolution.context.lineNumber = 3
    /\ Len(resolution.config.languageOverrides) = 1
    /\ resolution.config.languageOverrides[1].pattern = "script"
    /\ resolution.settings.commentStart = resolution.config.defaultCommentStyle

(* -------------------- the neutralizer as a function ------------------- *)

\* how often the neutralizer is applied to its own output
MaxApplications == 2

\* nothing of the manager is running: the state outside the text a function
\* is applied to
ManagerAtRest ==
    /\ platform = "posix"
    /\ fs = HandlerFiles
    /\ sourceToDocuments = << >>
    /\ documentIncludes = << >>
    /\ documentWatchers = << >>
    /\ watchers = << >>
    /\ pass = NoPass
    /\ quiet = 0
    /\ sourceChanges = 0
    /\ userEdits = 0
    /\ second = << << >> >>
    /\ report = NoReport
    /\ isPerformingUpdate = FALSE
    /\ isClosed = FALSE
    /\ slots = [id \in SlotIds |-> Idle]
    /\ timers = {}
    /\ ui = {}
    /\ change = NoChange
    /\ resolution = NoResolution
    /\ disposables = EventHandlers

\* a line with two directives, and a line whose first keyword follows a word
IncludeBThenD == IncludeB \o <<SP>> \o IncludeD
WordThenD == <<"t", SP, VI, SP, QUOTE, "b.md", QUOTE, SP>> \o IncludeD

\* the lines of an included file
ContentLines ==
    { Empty, TextLine, IncludeB, <<SP, SP>> \o IncludeB, IncludeDWith,
      Directive(<<HASH>>, << >>, <<"d.js">>), IncludeBThenD, WordThenD,
      MarkerStartLine, <<SP>> \o MarkerEndLine }

IncludedContents == { <<a>> : a \in ContentLines } \cup { <<a, b>> : a, b \in ContentLines }

\* document holds the content handed to the neutralizer
InitNeutralize ==
    /\ document \in IncludedContents
    /\ started = 0
    /\ ManagerAtRest

\* _neutralizeNestedIncludes is applied to the content (lines 269-309)
Neutralize ==
    /\ started < MaxApplications
    /\ document' = _neutralizeNestedIncludes(document, getLanguageSettings(DocLanguage))
    /\ started' = started + 1
    /\ UNCHANGED <<platform, fs, sourceToDocuments, documentIncludes, pass, quiet,
                   sourceChanges, userEdits, isPerformingUpdate, isClosed, slots, timers,
                   ui, change, second, report, resolution, disposables,
                   documentWatchers, watchers>>

NextNeutralize == Neutralize

SpecNeutralize == InitNeutralize /\ [][NextNeutralize]_vars

\* C31: neutralization is idempotent: content that has been neutralized once
\* is returned unchanged by the neutralizer
C31_NeutralizedIsFixed ==
    started >= 1 =>
        _neutralizeNestedIncludes(document, getLanguageSettings(DocLanguage)) = document

(* ------------------ the will-save listener as a function -------------- *)

\* how many lines a document about to be saved has
MaxSavedLines == 3

\* the lines of a document about to be saved
SavedLines ==
    { TextLine, MarkerStartLine, <<SP, SP>> \o MarkerStartLine, MarkerEndLine,
      <<SP>> \o MarkerEndLine }

SavedDocuments ==
    UNION { [1..n -> SavedLines] : n \in 1..MaxSavedLines }

InitWillSave ==
    /\ document \in SavedDocuments
    /\ started = 0
    /\ ManagerAtRest

\* the document is saved: the will-save listener returns its edits and the
\* save applies them (virtual-include-manager.ts lines 255-258)
WillSave ==
    /\ started = 0
    /\ \E edits \in {ProtectedEdits(document)} :
          /\ pass' = [NoPass EXCEPT !.before = document, !.edits = edits]
          /\ document' = ApplyInserts(document, edits)
    /\ started' = 1
    /\ UNCHANGED <<platform, fs, sourceToDocuments, documentIncludes, quiet,
                   sourceChanges, userEdits, isPerformingUpdate, isClosed, slots, timers,
                   ui, change, second, report, resolution, disposables,
                   documentWatchers, watchers>>

NextWillSave == WillSave

SpecWillSave == InitWillSave /\ [][NextWillSave]_vars

\* line i of the lines is a start or an end marker of the document's language
IsMarkerLine(lines, i) ==
    \/ Trim(At(lines, i)) = Trim(MarkerStartLine)
    \/ Trim(At(lines, i)) = Trim(MarkerEndLine)

\* the last marker line of the lines, or -1
LastMarker(lines) ==
    IF \E i \in 0..(Len(lines) - 1) : IsMarkerLine(lines, i)
    THEN CHOOSE i \in 0..(Len(lines) - 1) :
            /\ IsMarkerLine(lines, i)
            /\ \A k \in (i + 1)..(Len(lines) - 1) : ~IsMarkerLine(lines, k)
    ELSE -1

\* C40: preventProtectedEdits returns at most one edit; it returns one exactly
\* when the last marker line of the document is a start marker, and the edit
\* then inserts, at the end of the document, an end marker indented like that
\* start marker; it returns none when the document has no marker line or its
\* last marker line is an end marker
C40_OneEndMarkerEdit ==
    started = 1 =>
        LET lines == pass.before
            last == LastMarker(lines)
            open == last # -1 /\ Trim(At(lines, last)) = Trim(MarkerStartLine)
        IN  /\ Len(pass.edits) <= 1
            /\ (Len(pass.edits) = 1) <=> open
            /\ open =>
                  /\ pass.edits[1].line = Len(lines)
                  /\ pass.edits[1].character = 0
                  /\ pass.edits[1].newText =
                        <<Empty, Indentation(At(lines, last)) \o MarkerEndLine, Empty>>
                  /\ document =
                        lines \o <<Indentation(At(lines, last)) \o MarkerEndLine, Empty>>
            /\ ~open => document = lines

\* a document whose last marker line is an indented start marker below an end
\* marker has been saved
C40_OpenAfterClosed ==
    /\ started = 1
    /\ Len(pass.before) = 3
    /\ Trim(At(pass.before, 0)) = Trim(MarkerEndLine)
    /\ At(pass.before, 1) = <<SP, SP>> \o MarkerStartLine
    /\ At(pass.before, 2) = TextLine
    /\ Len(pass.edits) = 1

(* --------------------- the pass's copy of the lines ------------------- *)

\* C35: during updateDocument, after every applied edit the pass's currentLines
\* equals the document line for line (a single pass, with no edit of the user
\* and no source change in between)
C35_TrackedCopyMatches ==
    (started = 1 /\ userEdits = 0 /\ sourceChanges = 0)
    => \A id \in SlotIds :
           (slots[id].stage = "editing" /\ slots[id].landed >= 1)
           => slots[id].currentLines = document

(* ------------------------ the text outside regions -------------------- *)

\* the lines that lie outside the spans from a start marker through the next
\* end marker, in their order
RECURSIVE OutsideFrom(_, _, _)
OutsideFrom(lines, i, inside) ==
    IF i >= Len(lines) THEN << >>
    ELSE IF inside
    THEN OutsideFrom(lines, i + 1, Trim(At(lines, i)) # EndMarker)
    ELSE IF Trim(At(lines, i)) = StartMarker THEN OutsideFrom(lines, i + 1, TRUE)
    ELSE <<At(lines, i)>> \o OutsideFrom(lines, i + 1, FALSE)

\* every region of the lines is complete: each start marker has its end
\* marker, and no end marker stands outside a region
RECURSIVE CompleteFrom(_, _, _)
CompleteFrom(lines, i, inside) ==
    IF i >= Len(lines) THEN ~inside
    ELSE IF inside
    THEN CompleteFrom(lines, i + 1, Trim(At(lines, i)) # EndMarker)
    ELSE IF Trim(At(lines, i)) = EndMarker THEN FALSE
    ELSE CompleteFrom(lines, i + 1, Trim(At(lines, i)) = StartMarker)

\* C38: a pass over a document whose regions are all complete leaves the lines
\* outside the regions as they were: none is deleted, altered, reordered or
\* added
C38_OutsidePreserved ==
    (pass # NoPass /\ ~pass.error /\ CompleteFrom(pass.before, 0, FALSE)
       /\ sourceChanges = 0 /\ userEdits = 0)
    => OutsideFrom(document, 0, FALSE) = OutsideFrom(pass.before, 0, FALSE)

(* ------------------- the flag while an edit is applied ---------------- *)

\* C36: whenever an edit issued by updateDocument is applied to the document,
\* isPerformingUpdate is true, under every interleaving of passes,
\* source-change handlers and restoring timers
C36_GateCoversEdits ==
    [][(\E id \in SlotIds : \E onDirective \in BOOLEAN : LandEdit(id, onDirective))
          => isPerformingUpdate]_vars

(* ----------------------- the regions of a pass ------------------------ *)

\* C37: after a pass that applied edits, every region that follows a directive
\* of the document, whatever marker style was resolved for the directive, is
\* one of the protected regions handleProtectedEdits finds, and its start
\* marker is one preventProtectedEdits takes for the start of a region
C37_RegionsAreProtected ==
    (pass.edits # << >> /\ ~pass.error /\ sourceChanges = 0 /\ userEdits = 0)
    => \A k \in Expanded(document) :
          /\ \E region \in ProtectedRegionsFrom(document, 0, FALSE, -1) :
                region.start = k + 1
          /\ Trim(At(document, k + 1)) = Trim(MarkerStartLine)

(* ------------------- the saved state of a document -------------------- *)
\* The two documents of SpecMutual with a user who types: a document may have
\* unsaved changes of the user before a pass, or get them while the timer of
\* a save is armed.

\* the user types a word at the end of the document's last line, which no
\* region holds and which is no directive: the change handler arms nothing
UserTypes(key) ==
    /\ userEdits < MaxUserEdits
    /\ userEdits' = userEdits + 1
    /\ \E typed \in {[LinesOf(key) EXCEPT ![Len(LinesOf(key))] = @ \o <<"q">>]} :
          /\ document' = IF key = DocKey THEN typed ELSE document
          /\ second' = IF key = SecondKey THEN typed ELSE second
    /\ UNCHANGED <<platform, fs, sourceToDocuments, documentIncludes, documentWatchers,
                   watchers, pass, quiet, sourceChanges, isPerformingUpdate, isClosed,
                   slots, timers, ui, change, started, report, resolution, disposables>>

NextClean ==
    \/ NextMutual
    \/ \E key \in DocumentKeys : UserTypes(key)

SpecClean == InitMutual /\ [][NextClean]_vars

\* the timers of a save
SaveTimers(key) == {<<"save100", key>>, <<"save300", key>>}

\* C33: an automatic pass (the document is shown, a watched source changes)
\* saves the document only if it was not dirty before the pass and is dirty
\* after it: a pass arms a save only then, and the extension writes the
\* document's file only from such a save; a document with unsaved changes
\* before the pass gets no save from it
C33_SavesOnlyWhatItMadeDirty ==
    [][\A key \in DocumentKeys :
          /\ (SaveTimers(key) \cap (timers' \ timers) # {})
             => /\ ~IsDirtyOf(key, LinesOf(key), fs)
                /\ IsDirtyOf(key, IF key = DocKey THEN document' ELSE second', fs')
          /\ fs'[PathOf(key)] # fs[PathOf(key)]
             => /\ SaveTimers(key) \cap timers # {}
                /\ SaveTimers(key) \cap (timers \ timers') # {}
                /\ IsDirtyOf(key, LinesOf(key), fs)]_vars

\* a pass has expanded the first document, which had unsaved changes of the
\* user before it: no save is armed and the file is as the user saved it
C33_DirtyBeforeLeftUnsaved ==
    /\ userEdits = 1
    /\ DocKey \in DOMAIN documentIncludes
    /\ Len(document) > 2
    /\ fs[DocPath] \in FirstTexts
    /\ IsDirtyOf(DocKey, document, fs)
    /\ timers = {}

(* --------------------------- repeated passes -------------------------- *)

\* how many passes are repeated over unchanged files
MaxPasses == 4

\* DocumentProcessor.processDocument (lines 52-246) as a function of the
\* document's lines, the disk and the platform: the lines after the pass
processDocument(lines, disk, plat) == ApplyScan(lines, Scan(lines, disk, plat)).document

\* the lines after k passes over unchanged files
RECURSIVE Passes(_, _, _, _)
Passes(lines, disk, plat, k) ==
    IF k = 0 THEN lines ELSE Passes(processDocument(lines, disk, plat), disk, plat, k - 1)

\* no file holds a line with the keyword: the contents are text and marker lines
NoDirectiveInFiles ==
    \A p \in SourcePaths : fs[p] = Missing \/ \A k \in 1..Len(fs[p]) : ~HasKeyword(fs[p][k])

\* C34: repeated passes over unchanged source files, whose content may hold
\* lines equal to a region marker, reach a fixed point: after MaxPasses passes
\* one more pass leaves the document's text, and so its line count, unchanged
C34_PassesReachFixedPoint ==
    NoDirectiveInFiles
    => Passes(document, fs, platform, MaxPasses + 1) = Passes(document, fs, platform, MaxPasses)

(* ------------------- the events of the file watchers ------------------ *)
\* One document in a visible editor, with unsaved changes of the user, so
\* that no handler saves it.  A pass runs to its end before another callback
\* runs.  A write of a file raises the change event of every watcher not
\* disposed that watches the file: the host delivers them in one turn, each
\* callback calling handleSourceFileChange up to its first await, so that a
\* watcher a later pass disposes has its handler under way all the same.
\* Here timers holds the handlers under way, each with the path its watcher
\* was created for, and started counts the passes the handlers have run
\* since the last write.

\* the documents shown: one or two directives for a file, expanded or not
WatchedDocuments ==
    { <<IncludeB, TextLine>>,
      <<IncludeD, TextLine>>,
      <<IncludeB, MarkerStartLine, <<"x">>, MarkerEndLine, TextLine>>,
      <<IncludeB, IncludeD, TextLine>>,
      <<IncludeB, TextLine, IncludeB, TextLine>>,
      <<IncludeB, TextLine, IncludeD, TextLine, IncludeB, TextLine>> }

InitWatcherEvents ==
    /\ document \in WatchedDocuments
    /\ started = 0
    /\ ManagerAtRest

\* the document is shown and its first pass runs (virtual-include-manager.ts
\* lines 178-187; document-processor.ts lines 52-246)
ShowDocument ==
    /\ DocKey \notin DOMAIN documentIncludes
    /\ \E scan \in {Scan(document, fs, platform)} :
         \E w \in {RebuildWatchers(DocKey, documentWatchers, watchers, scan)} :
           /\ document' = ApplyScan(document, scan).document
           /\ documentIncludes' = (DocKey :> IncludeMapOf(scan))
           /\ sourceToDocuments' = TrackSources(sourceToDocuments, scan)
           /\ documentWatchers' = w.documentWatchers
           /\ watchers' = w.watchers
    /\ UNCHANGED <<platform, fs, pass, quiet, sourceChanges, userEdits, isPerformingUpdate,
                   isClosed, slots, timers, ui, change, started, second, report,
                   resolution, disposables>>

\* a program writes a source file; each watcher of the file raises onDidChange
\* and its callback calls handleSourceFileChange (file-watcher lines 80-85)
SourceChangedOnDisk(p, c) ==
    /\ timers = {}
    /\ DocKey \in DOMAIN documentIncludes
    /\ sourceChanges < MaxWrites
    /\ c # fs[p]
    /\ fs' = [fs EXCEPT ![p] = c]
    /\ sourceChanges' = sourceChanges + 1
    /\ timers' = {<<"changed", id, p>> : id \in {n \in DOMAIN watchers : watchers[n] = p}}
    /\ started' = 0
    /\ UNCHANGED <<platform, document, sourceToDocuments, documentIncludes,
                   documentWatchers, watchers, pass, quiet, userEdits, isPerformingUpdate,
                   isClosed, slots, ui, change, second, report, resolution, disposables>>

\* handleSourceFileChange of one watcher's callback runs on (file-watcher
\* lines 111-185): a pass on the document when the mapping has it for the
\* path, no save as the document was dirty before, the flag reset at the end
HandleSourceFileChange(id, p) ==
    /\ <<"changed", id, p>> \in timers
    /\ timers' = timers \ {<<"changed", id, p>>}
    /\ IF p \in DOMAIN sourceToDocuments /\ DocKey \in sourceToDocuments[p]
       THEN \E scan \in {Scan(document, fs, platform)} :
              \E w \in {RebuildWatchers(DocKey, documentWatchers, watchers, scan)} :
                /\ document' = ApplyScan(document, scan).document
                /\ documentIncludes' = (DocKey :> IncludeMapOf(scan))
                /\ sourceToDocuments' = TrackSources(sourceToDocuments, scan)
                /\ documentWatchers' = w.documentWatchers
                /\ watchers' = w.watchers
                /\ started' = started + 1
       ELSE UNCHANGED <<document, documentIncludes, sourceToDocuments, documentWatchers,
                        watchers, started>>
    /\ UNCHANGED <<platform, fs, pass, quiet, sourceChanges, userEdits, isPerformingUpdate,
                   isClosed, slots, ui, change, second, report, resolution, disposables>>

NextWatcherEvents ==
    \/ ShowDocument
    \/ \E p \in SourcePaths : \E c \in WrittenContents : SourceChangedOnDisk(p, c)
    \/ \E id \in 1..MaxDocLines : \E p \in SourcePaths : HandleSourceFileChange(id, p)

SpecWatcherEvents == InitWatcherEvents /\ [][NextWatcherEvents]_vars

\* C39: one change of a source file sets off at most one pass on the document
\* that includes it, however many directives name the file and however many
\* watchers were created for it
C39_OnePassPerChange == started <= 1

====
